---------------------------- MODULE Spec2Model ----------------------------
(***************************************************************************)
(* A model of the CANopen slave node of atomi-ai/canopen-rust: the object  *)
(* directory, the SDO server state machine, the PDO passes, the NMT state  *)
(* machine, emergencies and the timer.  Byte strings are sequences of      *)
(* 0..255; frame payloads are indexed from 0 in the source and from 1      *)
(* here, so the helpers At and Slice keep the source's 0-based indices.    *)
(***************************************************************************)
EXTENDS Integers, Sequences, FiniteSets, TLC

VARIABLES
    object_directory,   \* Node.object_directory.index_to_object
    backup_od,          \* Node.backup_od.index_to_object
    pdo_objects,        \* Node.pdo_objects
    sdo_state,          \* Node.sdo_state
    read_buf,           \* Node.read_buf : Option<Vec<u8>>
    read_buf_index,     \* Node.read_buf_index
    next_read_toggle,   \* Node.next_read_toggle
    write_buf,          \* Node.write_buf : Option<Vec<u8>>
    reserved_index,     \* Node.reserved_index
    reserved_sub_index, \* Node.reserved_sub_index
    write_data_size,    \* Node.write_data_size
    need_crc,           \* Node.need_crc
    block_size,         \* Node.block_size
    current_seq_number, \* Node.current_seq_number
    heartbeats_timer,   \* Node.heartbeats_timer
    sync_count,         \* Node.sync_count
    event_count,        \* Node.event_count
    state,              \* Node.state : NodeState
    error_count,        \* Node.error_count
    heartbeats,         \* Node.heartbeats
    can_network,        \* the frames the last step put on the bus, in order
    halted,             \* the last step panicked: the node thread is gone
    fields,             \* the (data, bits) pairs handed to pack_data
    packed,             \* what pack_data returned for them, once called
    unpacked            \* what unpack_data returned for those bytes, once called

node_vars == << object_directory, backup_od, pdo_objects, sdo_state, read_buf,
                read_buf_index, next_read_toggle, write_buf, reserved_index,
                reserved_sub_index, write_data_size, need_crc, block_size,
                current_seq_number, heartbeats_timer, sync_count, event_count, state,
                error_count, heartbeats, can_network, halted >>

vars == << node_vars, fields, packed, unpacked >>

-----------------------------------------------------------------------------
(* Bytes, slices and integer conversions.                                  *)

\* v[i] of the source (0-based)
At(v, i) == v[i + 1]

\* &v[a..b] of the source (0-based, b exclusive)
Slice(v, a, b) == SubSeq(v, a + 1, b)

\* vec![x; n]
Repeat(x, n) == [i \in 1..n |-> x]

Min(a, b) == IF a < b THEN a ELSE b

\* `let x = v; body`: v is evaluated once, and body sees its value
Let(v, body(_)) == CHOOSE r \in { body(x) : x \in { v } } : TRUE

Pow2(n) == 2 ^ n

\* x >> n and x << n on unbounded naturals; callers truncate to their width
Shr(x, n) == x \div Pow2(n)
Shl(x, n) == x * Pow2(n)

\* x & y for 4-bit operands, as a table
And4 ==
    [x \in 0..15 |-> [y \in 0..15 |->
        (x % 2) * (y % 2) + 2 * ((x \div 2) % 2) * ((y \div 2) % 2)
        + 4 * ((x \div 4) % 2) * ((y \div 4) % 2) + 8 * (x \div 8) * (y \div 8)]]

\* a & b, a | b, a ^ b on naturals below 2^31, four bits at a time
RECURSIVE BitAnd(_, _)
BitAnd(a, b) ==
    IF a = 0 \/ b = 0 THEN 0
    ELSE And4[a % 16][b % 16] + 16 * BitAnd(a \div 16, b \div 16)

BitOr(a, b) == a + b - BitAnd(a, b)
BitXor(a, b) == a + b - 2 * BitAnd(a, b)

\* u8 / u16 / u32 truncation of a cast
U8(x) == x % 256
U16(x) == x % 65536

\* uN::from_le_bytes
RECURSIVE from_le_bytes(_)
from_le_bytes(bytes) ==
    IF bytes = << >> THEN 0
    ELSE Head(bytes) + 256 * from_le_bytes(Tail(bytes))

\* uN::to_le_bytes for an N = len byte integer
RECURSIVE to_le_bytes(_, _)
to_le_bytes(x, len) ==
    IF len = 0 THEN << >>
    ELSE << x % 256 >> \o to_le_bytes(x \div 256, len - 1)

\* Value::to::<uN>() : the little-endian integer when the value has exactly
\* N bytes, and 0 otherwise
to(value, len) == IF Len(value) = len THEN from_le_bytes(value) ELSE 0

\* Option<T>
None == [some |-> FALSE]
Some(v) == [some |-> TRUE, v |-> v]

\* Result<T, AbortCode>, and a panic of the handler
Ok(v) == [kind |-> "Ok", v |-> v]
Err(c) == [kind |-> "Err", code |-> c]
Panic == [kind |-> "Panic"]

-----------------------------------------------------------------------------
(* data_type.rs                                                            *)

\* DataType::size: 0 means variable length
size(data_type) ==
    CASE data_type = "Unknown" -> 0
      [] data_type = "Boolean" -> 1
      [] data_type = "Integer8" -> 1
      [] data_type = "Integer16" -> 2
      [] data_type = "Integer32" -> 4
      [] data_type = "Unsigned8" -> 1
      [] data_type = "Unsigned16" -> 2
      [] data_type = "Unsigned32" -> 4
      [] data_type = "Real32" -> 4
      [] data_type = "VisibleString" -> 0
      [] data_type = "OctetString" -> 0
      [] data_type = "UnicodeString" -> 0
      [] data_type = "Domain" -> 4
      [] data_type = "Real64" -> 8
      [] data_type = "Integer64" -> 8
      [] data_type = "Unsigned64" -> 8

-----------------------------------------------------------------------------
(* error.rs                                                                *)

\* AbortCode::code, written in decimal
code(abort_code) ==
    CASE abort_code = "ToggleBitNotAlternated" -> 84082688                \* 0x05030000
      [] abort_code = "CommandSpecifierNotValidOrUnknown" -> 84148225     \* 0x05040001
      [] abort_code = "InvalidBlockSize" -> 84148226                      \* 0x05040002
      [] abort_code = "InvalidSequenceNumber" -> 84148227                 \* 0x05040003
      [] abort_code = "AttemptToReadWriteOnlyObject" -> 100728833         \* 0x06010001
      [] abort_code = "AttemptToWriteReadOnlyObject" -> 100728834         \* 0x06010002
      [] abort_code = "ObjectDoesNotExistInObjectDictionary" -> 100794368 \* 0x06020000
      [] abort_code = "ObjectCannotBeMappedToPDO" -> 100925505            \* 0x06040041
      [] abort_code = "ExceedPDOSize" -> 100925506                        \* 0x06040042
      [] abort_code = "DataTypeMismatchLengthTooHigh" -> 101122066        \* 0x06070012
      [] abort_code = "DataTypeMismatchLengthTooLow" -> 101122067         \* 0x06070013
      [] abort_code = "SubIndexDoesNotExist" -> 101253137                 \* 0x06090011
      [] abort_code = "GeneralError" -> 134217728                         \* 0x08000000

-----------------------------------------------------------------------------
(* object_directory.rs.  A Variable is a record                            *)
(*   [index, sub_index, data_type, default_value, pdo_mappable,            *)
(*    access_type : [read_access, write_access]];                          *)
(* an object is [kind |-> "Variable", var |-> v] or                        *)
(* [kind |-> "Array" / "Record", index_to_variable |-> sub_index -> v];    *)
(* the directory maps the indexes it holds to objects.  Names, limits and  *)
(* storage locations are never read by the node and are left out.          *)

is_readable(access_type) == access_type.read_access
is_writable(access_type) == access_type.write_access

\* Array::get_mut_variable: the array after the access, and the sub-index
\* found; an absent sub-index in 1..254 is cloned from sub-index 1
Array_get_mut_variable(arr, sub_index) ==
    IF sub_index \in DOMAIN arr.index_to_variable
    THEN [obj |-> arr, res |-> Ok(sub_index)]
    ELSE IF 0 < sub_index /\ sub_index < 255 /\ 1 \in DOMAIN arr.index_to_variable
    THEN LET new_var == [arr.index_to_variable[1] EXCEPT !.sub_index = sub_index]
         IN  [obj |-> [arr EXCEPT !.index_to_variable = (sub_index :> new_var) @@ @],
              res |-> Ok(sub_index)]
    ELSE [obj |-> arr, res |-> Err("ObjectDoesNotExistInObjectDictionary")]

\* Record::get_mut_variable
Record_get_mut_variable(rec, sub_index) ==
    IF sub_index \in DOMAIN rec.index_to_variable
    THEN [obj |-> rec, res |-> Ok(sub_index)]
    ELSE [obj |-> rec, res |-> Err("ObjectDoesNotExistInObjectDictionary")]

\* ObjectDirectory::get_mut_variable: the directory after the access and
\* Ok(sub_index) when (index, sub_index) names a variable of it
get_mut_variable(od, index, sub_index) ==
    IF index \notin DOMAIN od
    THEN [od |-> od, res |-> Err("ObjectDoesNotExistInObjectDictionary")]
    ELSE CASE od[index].kind = "Variable" ->
                IF sub_index = 0
                THEN [od |-> od, res |-> Ok(sub_index)]
                ELSE [od |-> od, res |-> Err("SubIndexDoesNotExist")]
           [] od[index].kind = "Array" ->
                LET r == Array_get_mut_variable(od[index], sub_index)
                IN  [od |-> [od EXCEPT ![index] = r.obj], res |-> r.res]
           [] od[index].kind = "Record" ->
                LET r == Record_get_mut_variable(od[index], sub_index)
                IN  [od |-> [od EXCEPT ![index] = r.obj], res |-> r.res]

\* the variable a successful lookup refers to
VarAt(od, index, sub_index) ==
    IF od[index].kind = "Variable" THEN od[index].var
    ELSE od[index].index_to_variable[sub_index]

\* set_data that leaves the stored bytes as they were
SetData_not_stored(od, index, sub_index, data) == od

\* var.default_value.set_data(data) on the variable at (index, sub_index)
SetData(od, index, sub_index, data) ==
    IF od[index].kind = "Variable"
    THEN [od EXCEPT ![index].var.default_value = data]
    ELSE [od EXCEPT ![index].index_to_variable[sub_index].default_value = data]

\* ObjectDirectory::get_variable: Ok(the variable) when it is readable
get_variable(od, index, sub_index) ==
    Let(get_mut_variable(od, index, sub_index), LAMBDA r :
        IF r.res.kind = "Ok"
        THEN Let(VarAt(r.od, index, sub_index), LAMBDA var :
                 IF ~is_readable(var.access_type)
                 THEN [od |-> r.od, res |-> Err("AttemptToReadWriteOnlyObject")]
                 ELSE [od |-> r.od, res |-> Ok(var)])
        ELSE r)

\* ObjectDirectory::set_value: Ok(the variable as written)
set_value(od, index, sub_index, data, ignore_access_check) ==
    Let(get_mut_variable(od, index, sub_index), LAMBDA r :
        IF r.res.kind = "Err" THEN r
        ELSE Let(VarAt(r.od, index, sub_index), LAMBDA var :
                 IF ~ignore_access_check /\ ~is_writable(var.access_type)
                 THEN [od |-> r.od, res |-> Err("AttemptToWriteReadOnlyObject")]
                 ELSE IF size(var.data_type) # Len(data)
                 THEN IF size(var.data_type) > Len(data)
                      THEN [od |-> r.od, res |-> Err("DataTypeMismatchLengthTooLow")]
                      ELSE [od |-> r.od, res |-> Err("DataTypeMismatchLengthTooHigh")]
                 ELSE Let(SetData(r.od, index, sub_index, data), LAMBDA od2 :
                          [od |-> od2, res |-> Ok(VarAt(od2, index, sub_index))])))

-----------------------------------------------------------------------------
(* pdo.rs: the PDO slots and their re-derivation from the directory.  The  *)
(* 64-entry mappings array is kept as a function on the positions written  *)
(* so far; every other position holds the initial (0, 0, 0).               *)

MAX_PDO_MAPPING_LENGTH == 64

\* pdo.mappings[i]
MappingAt(pdo, i) == IF i \in DOMAIN pdo.mappings THEN pdo.mappings[i] ELSE << 0, 0, 0 >>

\* PdoObjects::new: default_rpdo / default_tpdo
DefaultPdo(pdo_type) ==
    [pdo_type |-> pdo_type,
     is_pdo_valid |-> FALSE,
     largest_sub_index |-> 5,
     cob_id |-> IF pdo_type = "RPDO" THEN 514 ELSE 384,   \* 0x202, 0x180
     transmission_type |-> 1,
     inhibit_time |-> 0,
     event_timer |-> 0,
     num_of_map_objs |-> 0,
     mappings |-> << >>,
     total_length |-> 0,
     cached_data |-> << >>]

\* PdoObjects::new; the slots are indexed 0..3 as in the source
PdoObjects_new ==
    [rpdos |-> [x \in 0..3 |-> DefaultPdo("RPDO")],
     tpdos |-> [x \in 0..3 |-> DefaultPdo("TPDO")],
     cob_to_index |-> << >>]

\* Value::to::<u32>() as its halves << t & 0xFFFF, t >> 16 >>: the model
\* checker's integers stop short of 2^32
to_u32(value) ==
    IF Len(value) = 4
    THEN << from_le_bytes(SubSeq(value, 1, 2)), from_le_bytes(SubSeq(value, 3, 4)) >>
    ELSE << 0, 0 >>

\* PdoObject::update_comm_params
update_comm_params(pdo, var) ==
    LET t == to_u32(var.default_value)
        p1 == IF var.sub_index = 1
              THEN [pdo EXCEPT !.is_pdo_valid = (BitAnd(Shr(t[2], 15), 1) = 0),
                               !.cob_id = t[1]]
              ELSE pdo
    IN  CASE var.sub_index = 0 -> [p1 EXCEPT !.largest_sub_index = to(var.default_value, 1)]
          [] var.sub_index = 2 -> [p1 EXCEPT !.transmission_type = to(var.default_value, 1)]
          [] var.sub_index = 3 -> [p1 EXCEPT !.inhibit_time = to(var.default_value, 2)]
          [] var.sub_index = 5 -> [p1 EXCEPT !.event_timer = to(var.default_value, 2)]
          [] OTHER -> p1

\* PdoObject::update_map_params; writing mappings[si - 1] with si > 64 is an
\* index out of bounds, reported by the caller
update_map_params(pdo, var) ==
    IF var.sub_index = 0
    THEN [pdo EXCEPT !.num_of_map_objs = to(var.default_value, 1)]
    ELSE LET t == to_u32(var.default_value)
             si == var.sub_index
         IN  [pdo EXCEPT !.mappings =
                 ((si - 1) :> << t[2], Shr(t[1], 8), BitAnd(t[1], 255) >>) @@ @]

\* the sum `total += l` of Node::update over the first n mappings
RECURSIVE MappedBits(_, _)
MappedBits(pdo, n) ==
    IF n = 0 THEN 0 ELSE MappedBits(pdo, n - 1) + MappingAt(pdo, n - 1)[3]

\* the directory after get_variable(index, si) for si = n, n-1, .., 1 and
\* whether every one of them was found (Node::update, the loop over .rev())
RECURSIVE CheckMapped(_, _, _)
CheckMapped(od, index, n) ==
    IF n = 0 THEN [od |-> od, ok |-> TRUE]
    ELSE Let(get_variable(od, index, n), LAMBDA r :
             IF r.res.kind = "Ok" THEN CheckMapped(r.od, index, n - 1)
             ELSE [od |-> r.od, ok |-> FALSE])

\* Node::update.  rpdos[x] / tpdos[x] with x > 3, mappings[si - 1] with
\* si > 64, mappings[si] with si > 63 and a u8 sum over 255 panic.
update(self, var) ==
    LET t == Shr(var.index, 8)
        x == BitAnd(var.index, 15)
        which == IF t < 24 THEN "rpdos" ELSE "tpdos"
    IN  IF t < 20 \/ t >= 28 THEN [self |-> self, res |-> Ok(<< >>)]
        ELSE IF x > 3 THEN [self |-> self, res |-> Panic]
        ELSE IF t % 4 < 2
        THEN Let(update_comm_params(self.pdo_objects[which][x], var), LAMBDA pdo :
                 [self |-> [self EXCEPT !.pdo_objects[which][x] = pdo,
                                        !.pdo_objects.cob_to_index = (pdo.cob_id :> x) @@ @],
                  res |-> Ok(<< >>)])
        ELSE IF var.sub_index > MAX_PDO_MAPPING_LENGTH THEN [self |-> self, res |-> Panic]
        ELSE Let(update_map_params(self.pdo_objects[which][x], var), LAMBDA pdo :
             Let([self EXCEPT !.pdo_objects[which][x] = pdo], LAMBDA s1 :
                 IF var.sub_index # 0 THEN [self |-> s1, res |-> Ok(<< >>)]
                 ELSE Let(CheckMapped(s1.object_directory, var.index, pdo.num_of_map_objs), LAMBDA c :
                      Let([s1 EXCEPT !.object_directory = c.od], LAMBDA s2 :
                      Let(MappedBits(pdo, pdo.num_of_map_objs), LAMBDA total :
                          IF ~c.ok THEN [self |-> s2, res |-> Err("ObjectCannotBeMappedToPDO")]
                          ELSE IF pdo.num_of_map_objs > MAX_PDO_MAPPING_LENGTH \/ total > 255
                          THEN [self |-> s2, res |-> Panic]
                          ELSE IF total > MAX_PDO_MAPPING_LENGTH
                          THEN [self |-> s2, res |-> Err("ExceedPDOSize")]
                          ELSE [self |-> [s2 EXCEPT !.pdo_objects[which][x].total_length = total],
                                res |-> Ok(<< >>)])))))

\* `for k in from..=len { if let Ok(sub_var) = get_variable(idx, k) { update(&sub_var)?; } }`
RECURSIVE UpdateSubs(_, _, _, _)
UpdateSubs(self, idx, k, len) ==
    IF k > len THEN [self |-> self, res |-> Ok(<< >>)]
    ELSE Let(get_variable(self.object_directory, idx, k), LAMBDA g :
         Let([self EXCEPT !.object_directory = g.od], LAMBDA s1 :
             IF g.res.kind = "Ok"
             THEN Let(update(s1, g.res.v), LAMBDA u :
                      IF u.res.kind = "Ok" THEN UpdateSubs(u.self, idx, k + 1, len) ELSE u)
             ELSE UpdateSubs(s1, idx, k + 1, len)))

\* the body of Node::update_pdo_params for one object index: the mapping
\* entries 1..len, then sub-index 0, then sub-indexes 0..len once more
UpdatePdoObject(self, idx) ==
    Let(get_variable(self.object_directory, idx, 0), LAMBDA g :
    Let([self EXCEPT !.object_directory = g.od], LAMBDA s0 :
        IF g.res.kind # "Ok" THEN [self |-> s0, res |-> Ok(<< >>)]
        ELSE Let(to(g.res.v.default_value, 1), LAMBDA len :
             Let(UpdateSubs(s0, idx, 1, len), LAMBDA r1 :
                 IF r1.res.kind # "Ok" THEN r1
                 ELSE Let(update(r1.self, g.res.v), LAMBDA r2 :
                          IF r2.res.kind # "Ok" THEN r2
                          ELSE Let(update(r2.self, g.res.v), LAMBDA r3 :
                                   IF r3.res.kind # "Ok" THEN r3
                                   ELSE UpdateSubs(r3.self, idx, 1, len)))))))

\* Node::update_pdo_params: 0x1400 + j, 0x1600 + j, 0x1800 + j, 0x1A00 + j
\* for j in 0..4, in that order
RECURSIVE UpdatePdoObjects(_, _)
UpdatePdoObjects(self, idxs) ==
    IF idxs = << >> THEN [self |-> self, res |-> Ok(<< >>)]
    ELSE Let(UpdatePdoObject(self, Head(idxs)), LAMBDA r :
             IF r.res.kind # "Ok" THEN r ELSE UpdatePdoObjects(r.self, Tail(idxs)))

update_pdo_params(self) ==
    UpdatePdoObjects(self,
        [n \in 1..16 |-> 5120 + 512 * ((n - 1) \div 4) + ((n - 1) % 4)])

-----------------------------------------------------------------------------
(* cmd_header.rs: the bit fields of byte 0, most significant bit first.    *)

ccs(cmd) == Shr(cmd, 5)
\* SdoDownloadInitiateCmd
InitiateCmd_n(cmd) == BitAnd(Shr(cmd, 2), 3)
InitiateCmd_e(cmd) == BitAnd(Shr(cmd, 1), 1) = 1
InitiateCmd_s(cmd) == BitAnd(cmd, 1) = 1
\* SdoDownloadSegmentCmd
SegmentCmd_t(cmd) == BitAnd(Shr(cmd, 4), 1)
SegmentCmd_n(cmd) == BitAnd(Shr(cmd, 1), 7)
SegmentCmd_c(cmd) == BitAnd(cmd, 1) = 1
\* SdoBlockDownloadInitiateCmd
BlockInitiateCmd_cc(cmd) == BitAnd(Shr(cmd, 2), 1) = 1
BlockInitiateCmd_s(cmd) == BitAnd(Shr(cmd, 1), 1) = 1
\* SdoEndBlockDownloadCmd
EndBlockCmd_n(cmd) == BitAnd(Shr(cmd, 2), 7)
\* SdoInitBlockUploadCmd
InitBlockUploadCmd_cc(cmd) == BitAnd(Shr(cmd, 2), 1) = 1
\* SdoInitBlockUploadCmd / SdoBlockUploadCmd
BlockUploadCmd_cs(cmd) == BitAnd(cmd, 3)

-----------------------------------------------------------------------------
(* util.rs                                                                 *)

\* flatten: the concatenated slices cut to 8 bytes and padded with zeros
flatten(bytes) ==
    [i \in 1..8 |-> IF i <= Len(bytes) THEN bytes[i] ELSE 0]

\* genf_and_padding / create_frame_with_padding: an 8-byte frame
genf_and_padding(cob_id, data) == [id |-> cob_id, data |-> flatten(data)]

-----------------------------------------------------------------------------
(* sdo_server.rs.  A handler takes the node (`self`, a record of the       *)
(* variables above) and returns the node it leaves and its result.         *)

node_id == 2

\* create_error_frame with the abort code written most significant byte first
create_error_frame_big_endian(error_code, index, sub_index) ==
    [id |-> BitOr(1408, node_id),
     data |-> << 128, BitAnd(index, 255), Shr(index, 8), sub_index >>
              \o << Shr(code(error_code), 24), BitAnd(Shr(code(error_code), 16), 255),
                    BitAnd(Shr(code(error_code), 8), 255), BitAnd(code(error_code), 255) >>]

\* create_error_frame
create_error_frame(error_code, index, sub_index) ==
    [id |-> BitOr(1408, node_id),
     data |-> << 128, BitAnd(index, 255), Shr(index, 8), sub_index >>
              \o to_le_bytes(code(error_code), 4)]

\* genf
genf(data) == Ok(genf_and_padding(BitOr(1408, node_id), data))

\* gen_frame
gen_frame(cmd, index, sub_index, data) ==
    genf(flatten(<< cmd >> \o to_le_bytes(index, 2) \o << sub_index >> \o data))

\* next_state
next_state(self, new_state, res) == [self |-> [self EXCEPT !.sdo_state = new_state], res |-> res]

\* initiate_upload
initiate_upload(self, index, sub_index) ==
    Let(get_variable(self.object_directory, index, sub_index), LAMBDA g :
    Let([self EXCEPT !.object_directory = g.od], LAMBDA s0 :
        IF g.res.kind = "Err" THEN [self |-> s0, res |-> g.res]
        ELSE LET data == g.res.v.default_value
             IN  IF Len(data) <= 4
                 THEN IF Len(data) = 0 THEN [self |-> s0, res |-> Panic]
                      ELSE LET cmd == BitOr(67, Shl(BitAnd(4 - Len(data), 3), 2))
                           IN  [self |-> s0, res |-> gen_frame(cmd, index, sub_index, data)]
                 ELSE LET s1 == [s0 EXCEPT !.read_buf = Some(data),
                                           !.read_buf_index = 0,
                                           !.next_read_toggle = 0,
                                           !.reserved_index = index,
                                           !.reserved_sub_index = sub_index]
                          res == gen_frame(65, index, sub_index, to_le_bytes(Len(data), 4))
                      IN  next_state(s1, "SdoSegmentUpload", res)))

\* upload_segment that takes a full last segment for a middle one
\* (`>= 7` for `> 7`)
upload_segment_off_by_one(self, cmd) ==
    IF Shr(cmd, 5) # 3 THEN [self |-> self, res |-> Err("GeneralError")]
    ELSE IF self.read_buf.some
    THEN LET buffer == self.read_buf.v
             toggle == BitAnd(Shr(cmd, 4), 1)
         IN  IF toggle # self.next_read_toggle
             THEN [self |-> self, res |-> Err("ToggleBitNotAlternated")]
             ELSE LET s1 == [self EXCEPT !.next_read_toggle = BitXor(@, 1)]
                      remaining_data == Slice(buffer, self.read_buf_index, Len(buffer))
                  IN  IF Len(remaining_data) >= 7
                      THEN LET data == flatten(<< Shl(toggle, 4) >> \o Slice(remaining_data, 0, 7))
                           IN  [self |-> [s1 EXCEPT !.read_buf_index = @ + 7], res |-> genf(data)]
                      ELSE LET n == 7 - Len(remaining_data)
                               data == flatten(
                                   << BitOr(BitOr(1, Shl(toggle, 4)), U8(Shl(n, 1))) >>
                                   \o remaining_data)
                               s2 == [s1 EXCEPT !.read_buf = None, !.read_buf_index = 0]
                           IN  next_state(s2, "Normal", genf(data))
    ELSE [self |-> self, res |-> Err("GeneralError")]

\* upload_segment
upload_segment(self, cmd) ==
    IF Shr(cmd, 5) # 3 THEN [self |-> self, res |-> Err("GeneralError")]
    ELSE IF self.read_buf.some
    THEN LET buffer == self.read_buf.v
             toggle == BitAnd(Shr(cmd, 4), 1)
         IN  IF toggle # self.next_read_toggle
             THEN [self |-> self, res |-> Err("ToggleBitNotAlternated")]
             ELSE LET s1 == [self EXCEPT !.next_read_toggle = BitXor(@, 1)]
                      remaining_data == Slice(buffer, self.read_buf_index, Len(buffer))
                  IN  IF Len(remaining_data) > 7
                      THEN LET data == flatten(<< Shl(toggle, 4) >> \o Slice(remaining_data, 0, 7))
                           IN  [self |-> [s1 EXCEPT !.read_buf_index = @ + 7], res |-> genf(data)]
                      ELSE LET n == 7 - Len(remaining_data)
                               data == flatten(
                                   << BitOr(BitOr(1, Shl(toggle, 4)), U8(Shl(n, 1))) >>
                                   \o remaining_data)
                               s2 == [s1 EXCEPT !.read_buf = None, !.read_buf_index = 0]
                           IN  next_state(s2, "Normal", genf(data))
    ELSE [self |-> self, res |-> Err("GeneralError")]

\* CCITT_HASH, in decimal
CCITT_HASH ==
    <<
       0, 4129, 8258, 12387, 16516, 20645, 24774, 28903, 33032, 37161, 41290, 45419,
       49548, 53677, 57806, 61935, 4657, 528, 12915, 8786, 21173, 17044, 29431, 25302,
       37689, 33560, 45947, 41818, 54205, 50076, 62463, 58334, 9314, 13379, 1056, 5121,
       25830, 29895, 17572, 21637, 42346, 46411, 34088, 38153, 58862, 62927, 50604, 54669,
       13907, 9842, 5649, 1584, 30423, 26358, 22165, 18100, 46939, 42874, 38681, 34616,
       63455, 59390, 55197, 51132, 18628, 22757, 26758, 30887, 2112, 6241, 10242, 14371,
       51660, 55789, 59790, 63919, 35144, 39273, 43274, 47403, 23285, 19156, 31415, 27286,
       6769, 2640, 14899, 10770, 56317, 52188, 64447, 60318, 39801, 35672, 47931, 43802,
       27814, 31879, 19684, 23749, 11298, 15363, 3168, 7233, 60846, 64911, 52716, 56781,
       44330, 48395, 36200, 40265, 32407, 28342, 24277, 20212, 15891, 11826, 7761, 3696,
       65439, 61374, 57309, 53244, 48923, 44858, 40793, 36728, 37256, 33193, 45514, 41451,
       53516, 49453, 61774, 57711, 4224, 161, 12482, 8419, 20484, 16421, 28742, 24679,
       33721, 37784, 41979, 46042, 49981, 54044, 58239, 62302, 689, 4752, 8947, 13010,
       16949, 21012, 25207, 29270, 46570, 42443, 38312, 34185, 62830, 58703, 54572, 50445,
       13538, 9411, 5280, 1153, 29798, 25671, 21540, 17413, 42971, 47098, 34713, 38840,
       59231, 63358, 50973, 55100, 9939, 14066, 1681, 5808, 26199, 30326, 17941, 22068,
       55628, 51565, 63758, 59695, 39368, 35305, 47498, 43435, 22596, 18533, 30726, 26663,
       6336, 2273, 14466, 10403, 52093, 56156, 60223, 64286, 35833, 39896, 43963, 48026,
       19061, 23124, 27191, 31254, 2801, 6864, 10931, 14994, 64814, 60687, 56684, 52557,
       48554, 44427, 40424, 36297, 31782, 27655, 23652, 19525, 15522, 11395, 7392, 3265,
       61215, 65342, 53085, 57212, 44955, 49082, 36825, 40952, 28183, 32310, 20053, 24180,
       11923, 16050, 3793, 7920 >>

\* crc16_canopen_with_lut: the loop body, on the running u16 crc
crc16_step(crc, byte) ==
    LET table_idx == BitXor(Shr(crc, 8), byte)
    IN  BitXor(CCITT_HASH[table_idx + 1], U16(Shl(crc, 8)))

\* crc16_canopen_with_lut: the loop over the remaining bytes
RECURSIVE crc16_from(_, _)
crc16_from(crc, bytes) ==
    IF bytes = << >> THEN crc
    ELSE LET next == crc16_step(crc, Head(bytes))
         IN  CASE next \in 0..65535 -> crc16_from(next, Tail(bytes))

crc16_canopen_with_lut(bytes) == crc16_from(0, bytes)

\* the pre-check of set_value_with_check for a mapping entry: the directory
\* after the look-up of the mapped variable, and the error it raises if any
MappingPrecheck(od, index, sub_index, data) ==
    IF ((5632 <= index /\ index <= 6143) \/ (6656 <= index /\ index <= 7167))
       /\ sub_index > 0 /\ sub_index <= MAX_PDO_MAPPING_LENGTH
    THEN IF Len(data) # 4 THEN [od |-> od, res |-> Err("ObjectCannotBeMappedToPDO")]
         ELSE LET di == BitOr(Shl(At(data, 3), 8), At(data, 2))
                  d_si == At(data, 1)
              IN  Let(get_variable(od, di, d_si), LAMBDA g :
                  IF g.res.kind = "Err" THEN g
                  ELSE IF ~g.res.v.pdo_mappable
                  THEN [od |-> g.od, res |-> Err("ObjectCannotBeMappedToPDO")]
                  ELSE IF index < 6144 /\ ~is_writable(g.res.v.access_type)
                  THEN [od |-> g.od, res |-> Err("ObjectCannotBeMappedToPDO")]
                  ELSE [od |-> g.od, res |-> Ok(<< >>)])
    ELSE [od |-> od, res |-> Ok(<< >>)]

\* set_value_with_check
set_value_with_check(self, index, sub_index, data) ==
    Let(MappingPrecheck(self.object_directory, index, sub_index, data), LAMBDA pre :
    Let([self EXCEPT !.object_directory = pre.od], LAMBDA s0 :
        IF pre.res.kind = "Err" THEN [self |-> s0, res |-> pre.res]
        ELSE Let(set_value(s0.object_directory, index, sub_index, data, FALSE), LAMBDA w :
             Let([s0 EXCEPT !.object_directory = w.od], LAMBDA s1 :
                 IF w.res.kind = "Err" THEN [self |-> s1, res |-> w.res]
                 ELSE IF 5120 <= index /\ index <= 7167 THEN update(s1, w.res.v)
                 ELSE IF index = 4119
                 THEN [self |-> [s1 EXCEPT !.heartbeats_timer = to(w.res.v.default_value, 2)],
                       res |-> Ok(<< >>)]
                 ELSE [self |-> s1, res |-> Ok(<< >>)]))))

\* initiate_download
initiate_download(self, index, sub_index, req) ==
    LET cmd == At(req, 0)
    IN  IF InitiateCmd_e(cmd) /\ InitiateCmd_s(cmd)
        THEN Let(Slice(req, 4, 8 - InitiateCmd_n(cmd)), LAMBDA data :
             Let(set_value_with_check(self, index, sub_index, data), LAMBDA w :
                 IF w.res.kind # "Ok" THEN w
                 ELSE [self |-> w.self, res |-> gen_frame(96, index, sub_index, << 0, 0, 0, 0 >>)]))
        ELSE LET s1 == [self EXCEPT !.write_buf = Some(<< >>),
                                    !.reserved_index = index,
                                    !.reserved_sub_index = sub_index,
                                    !.write_data_size =
                                        IF InitiateCmd_s(cmd) THEN from_le_bytes(Slice(req, 4, 8))
                                        ELSE 0]
             IN  next_state(s1, "SdoSegmentDownload",
                            gen_frame(96, index, sub_index, << 0, 0, 0, 0 >>))

\* download_segment
download_segment(self, req) ==
    LET cmd == At(req, 0)
    IN  IF ccs(cmd) # 0 THEN [self |-> self, res |-> Err("GeneralError")]
        ELSE IF self.write_buf.some
        THEN LET resp_cmd == BitOr(32, Shl(SegmentCmd_t(cmd), 4))
             IN  IF ~SegmentCmd_c(cmd)
                 THEN [self |-> [self EXCEPT !.write_buf.v = @ \o Slice(req, 1, 8)],
                       res |-> genf(<< resp_cmd >>)]
                 ELSE Let(self.write_buf.v \o Slice(req, 1, 8 - SegmentCmd_n(cmd)), LAMBDA buf :
                      Let([self EXCEPT !.write_buf.v = buf], LAMBDA s1 :
                          IF self.write_data_size > 0 /\ self.write_data_size # Len(buf)
                          THEN [self |-> s1, res |-> Err("GeneralError")]
                          ELSE Let(set_value_with_check(s1, self.reserved_index,
                                                        self.reserved_sub_index, buf), LAMBDA w :
                                   IF w.res.kind # "Ok" THEN w
                                   ELSE [self |-> w.self, res |-> genf(<< resp_cmd >>)])))
        ELSE [self |-> self, res |-> Err("GeneralError")]

\* Node.crc_enabled: set at construction, never written afterwards
crc_enabled == TRUE

\* init_block_download
init_block_download(self, index, sub_index, req) ==
    LET cmd == At(req, 0)
        s1 == [self EXCEPT !.need_crc = IF BlockInitiateCmd_cc(cmd) THEN TRUE ELSE @,
                           !.write_data_size =
                               IF BlockInitiateCmd_s(cmd) THEN from_le_bytes(Slice(req, 4, 8))
                               ELSE 0,
                           !.write_buf = Some(<< >>),
                           !.current_seq_number = 0,
                           !.reserved_index = index,
                           !.reserved_sub_index = sub_index]
        resp_cmd == BitOr(160, Shl(IF crc_enabled THEN 1 ELSE 0, 2))
    IN  next_state(s1, "DownloadSdoBlock",
                   gen_frame(resp_cmd, index, sub_index, << self.block_size, 0, 0, 0 >>))

\* buf.resize(new_len, 0)
resize(buf, new_len) == [i \in 1..new_len |-> IF i <= Len(buf) THEN buf[i] ELSE 0]

\* block_download
block_download(self, req) ==
    LET seqno == BitAnd(At(req, 0), 127)
        s1 == [self EXCEPT !.current_seq_number = @ + 1]
    IN  IF seqno # s1.current_seq_number THEN [self |-> s1, res |-> Err("GeneralError")]
        ELSE IF s1.write_buf.some
        THEN LET ext == s1.write_buf.v \o Slice(req, 1, 8)
             IN  IF Shr(At(req, 0), 7) = 1
                 THEN Let(IF Len(ext) >= s1.write_data_size
                             /\ Len(ext) - 7 < s1.write_data_size
                          THEN resize(ext, s1.write_data_size)
                          ELSE ext, LAMBDA buf :
                      Let([s1 EXCEPT !.write_buf.v = buf], LAMBDA s2 :
                      Let(set_value_with_check(s2, s2.reserved_index,
                                               s2.reserved_sub_index, buf), LAMBDA w :
                          IF w.res.kind # "Ok" THEN w
                          ELSE next_state(w.self, "EndSdoBlockDownload",
                                   genf(<< 162, w.self.current_seq_number, w.self.block_size >>)))))
                 ELSE [self |-> [s1 EXCEPT !.write_buf.v = ext], res |-> genf(<< >>)]
        ELSE [self |-> s1, res |-> Err("GeneralError")]

\* end_block_download
end_block_download(self, req) ==
    IF EndBlockCmd_n(At(req, 0)) # 7 - (self.write_data_size % 7)
    THEN [self |-> self, res |-> Err("GeneralError")]
    ELSE [self |-> self, res |-> genf(<< 161 >>)]

\* init_block_upload
init_block_upload(self, index, sub_index, req) ==
    LET cmd == At(req, 0)
        blk_size == At(req, 4)
    IN  IF ccs(cmd) # 5 \/ BlockUploadCmd_cs(cmd) # 0
        THEN [self |-> self, res |-> Err("GeneralError")]
        ELSE IF blk_size >= 128 THEN [self |-> self, res |-> Err("InvalidBlockSize")]
        ELSE Let(get_variable(self.object_directory, index, sub_index), LAMBDA g :
             Let([self EXCEPT !.need_crc = InitBlockUploadCmd_cc(cmd),
                              !.block_size = blk_size,
                              !.reserved_index = index,
                              !.reserved_sub_index = sub_index,
                              !.object_directory = g.od], LAMBDA s1 :
                 IF g.res.kind = "Err" THEN [self |-> s1, res |-> g.res]
                 ELSE LET s2 == [s1 EXCEPT !.read_buf = Some(g.res.v.default_value),
                                           !.read_buf_index = 0]
                          resp_cmd == BitOr(194, Shl(IF crc_enabled THEN 1 ELSE 0, 2))
                          v == to_le_bytes(Len(g.res.v.default_value), 4)
                      IN  next_state(s2, "StartSdoBlockUpload",
                                     gen_frame(resp_cmd, index, sub_index, v))))

\* the frames start_block_upload transmits itself: segments 1 .. total_seqs - 1
EagerSegments(buf, total_seqs) ==
    [k \in 1..(total_seqs - 1) |->
        genf_and_padding(BitOr(1408, node_id),
                         flatten(<< k >> \o Slice(buf, (k - 1) * 7, (k - 1) * 7 + 7)))]

\* start_block_upload.  An empty buffer underflows `buf.len() - 1` and then
\* slices past its end.  `i * 7 + 7` is a u8 sum: with 38 segments or more
\* the loop sends segments 1..36 and panics at i = 36, on the overflow where
\* overflow is checked and on the slice buf[252..3] where it wraps.
start_block_upload(self, req) ==
    LET cmd == At(req, 0)
    IN  IF ccs(cmd) # 5 \/ BlockUploadCmd_cs(cmd) # 3
        THEN [self |-> self, res |-> Err("GeneralError")]
        ELSE IF ~self.read_buf.some THEN [self |-> self, res |-> Panic]
        ELSE LET buf == self.read_buf.v
             IN  IF Len(buf) = 0 THEN [self |-> self, res |-> Panic]
                 ELSE LET total_seqs == U8((Len(buf) - 1) \div 7 + 1)
                      IN  IF total_seqs = 0 THEN [self |-> self, res |-> Panic]
                          ELSE IF (total_seqs - 1) * 7 > 255
                          THEN [self |-> [self EXCEPT !.can_network =
                                              @ \o EagerSegments(buf, 37)],
                                res |-> Panic]
                          ELSE LET s1 == [self EXCEPT !.can_network =
                                              @ \o EagerSegments(buf, total_seqs)]
                                   s == (total_seqs - 1) * 7
                                   f == genf(flatten(<< BitOr(total_seqs, 128) >>
                                                     \o Slice(buf, s, Len(buf))))
                               IN  next_state(s1, "ConfirmUploadSdoBlock", f)

\* confirm_block_upload
confirm_block_upload(self, req) ==
    LET cmd == At(req, 0)
    IN  IF ccs(cmd) # 5 \/ BlockUploadCmd_cs(cmd) # 2
        THEN [self |-> self, res |-> Err("GeneralError")]
        ELSE IF ~self.read_buf.some THEN [self |-> self, res |-> Panic]
        ELSE LET buf == self.read_buf.v
                 ackseq == At(req, 1)
                 blksize == At(req, 2)
             IN  IF Len(buf) = 0 THEN [self |-> self, res |-> Panic]
                 ELSE IF ackseq # (Len(buf) - 1) \div 7 + 1
                 THEN [self |-> self, res |-> Err("CommandSpecifierNotValidOrUnknown")]
                 ELSE LET s1 == [self EXCEPT !.block_size = blksize]
                          n == 7 - (Len(buf) % 7)
                          resp_cmd == BitOr(193, U8(Shl(n, 2)))
                          crc == IF self.need_crc THEN crc16_canopen_with_lut(buf) ELSE 0
                          t == flatten(<< resp_cmd >> \o to_le_bytes(crc, 2)
                                       \o << 0, 0, 0, 0, 0 >>)
                      IN  [self |-> s1, res |-> genf(t)]

\* Node::filter_frame (node.rs): TRUE when the frame is for another node
filter_frame(frame) == BitAnd(frame.id, 127) # node_id

\* dispatch_sdo_request, `let res = match &self.sdo_state { .. }`: the
\* handler the state selects, and what it returns
HandlerResult(self, frame) ==
    LET cmd == At(frame.data, 0)
        index == from_le_bytes(Slice(frame.data, 1, 3))
        sub_index == At(frame.data, 3)
    IN  CASE self.sdo_state = "SdoSegmentDownload" ->
                Let(download_segment(self, frame.data), LAMBDA d :
                    IF d.res.kind = "Panic" THEN d ELSE next_state(d.self, "Normal", d.res))
          [] self.sdo_state = "SdoSegmentUpload" -> upload_segment(self, cmd)
          [] self.sdo_state = "DownloadSdoBlock" -> block_download(self, frame.data)
          [] self.sdo_state = "EndSdoBlockDownload" ->
                Let(end_block_download(self, frame.data), LAMBDA d :
                    next_state(d.self, "Normal", d.res))
          [] self.sdo_state = "StartSdoBlockUpload" -> start_block_upload(self, frame.data)
          [] self.sdo_state = "ConfirmUploadSdoBlock" -> confirm_block_upload(self, frame.data)
          [] self.sdo_state = "Normal" ->
                CASE ccs(cmd) = 1 -> initiate_download(self, index, sub_index, frame.data)
                  [] ccs(cmd) = 2 -> initiate_upload(self, index, sub_index)
                  [] ccs(cmd) = 6 -> init_block_download(self, index, sub_index, frame.data)
                  [] ccs(cmd) = 5 -> init_block_upload(self, index, sub_index, frame.data)
                  [] OTHER -> [self |-> self,
                               res |-> Err("CommandSpecifierNotValidOrUnknown")]

\* dispatch_sdo_request: the node it leaves and Ok(None), Ok(Some(response))
\* or Panic
dispatch_sdo_request(self, frame) ==
    IF filter_frame(frame) THEN [self |-> self, res |-> Ok(None)]
    ELSE
    LET index == from_le_bytes(Slice(frame.data, 1, 3))
        sub_index == At(frame.data, 3)
    IN  Let(HandlerResult(self, frame), LAMBDA r :
        CASE r.res.kind = "Ok" -> [self |-> r.self, res |-> Ok(Some(r.res.v))]
          [] r.res.kind = "Panic" -> r
          [] r.res.kind = "Err" ->
                LET idx == IF r.self.sdo_state = "Normal" THEN index
                           ELSE r.self.reserved_index
                    sidx == IF r.self.sdo_state = "Normal" THEN sub_index
                            ELSE r.self.reserved_sub_index
                    s1 == [r.self EXCEPT !.sdo_state = "Normal", !.read_buf = None,
                                         !.write_buf = None, !.need_crc = FALSE]
                IN  [self |-> s1, res |-> Ok(Some(create_error_frame(r.res.code, idx, sidx)))])

\* Node::transmit (node.rs)
transmit(self, frame) == [self EXCEPT !.can_network = Append(@, frame)]

\* process_sdo_frame: the response of dispatch_sdo_request, if any, goes out
process_sdo_frame(self, frame) ==
    Let(dispatch_sdo_request(self, frame), LAMBDA d :
        IF d.res.kind = "Panic" THEN d
        ELSE IF d.res.v.some THEN [self |-> transmit(d.self, d.res.v.v), res |-> Ok(<< >>)]
        ELSE [self |-> d.self, res |-> Ok(<< >>)])

-----------------------------------------------------------------------------
(* pdo.rs: bit packing, the trigger predicate and the two PDO passes.  A   *)
(* u64 is kept as its 64 bits, most significant first: the model checker's *)
(* integers stop short of 2^32.                                            *)

\* the 8 bits of a byte, most significant first
ByteBits(b) == [i \in 1..8 |-> (b \div Pow2(8 - i)) % 2]

\* the number a bit string stands for
RECURSIVE BitsValue(_)
BitsValue(bits) ==
    IF bits = << >> THEN 0
    ELSE 2 * BitsValue(SubSeq(bits, 1, Len(bits) - 1)) + bits[Len(bits)]

\* the last n elements of s, zero-filled on the left
LastBits(s, n) ==
    Let(s, LAMBDA t : [i \in 1..n |-> IF i + Len(t) - n >= 1 THEN t[i + Len(t) - n] ELSE 0])

RECURSIVE BytesToBits(_)
BytesToBits(v) == IF v = << >> THEN << >> ELSE ByteBits(Head(v)) \o BytesToBits(Tail(v))

\* the bytes of a bit string whose length is a multiple of 8
BitsToBytes(bits) ==
    Let(bits, LAMBDA b : [k \in 1..(Len(b) \div 8) |-> BitsValue(SubSeq(b, 8 * k - 7, 8 * k))])

\* vec_to_u64 of pdo.rs: the bytes read as a big-endian number
vec_to_u64(v) == LastBits(BytesToBits(v), 64)

\* u64::to_le_bytes
u64_to_le_bytes(u) == [k \in 1..8 |-> BitsToBytes(u)[9 - k]]

\* pack_data, `merged` after the first n fields
RECURSIVE Merged(_, _)
Merged(vec, n) ==
    IF n = 0 THEN Repeat(0, 64)
    ELSE LastBits(Merged(vec, n - 1) \o LastBits(vec[n][1], vec[n][2]), 64)

\* pack_data, `total_bits` after the first n fields
RECURSIVE TotalBits(_, _)
TotalBits(vec, n) == IF n = 0 THEN 0 ELSE TotalBits(vec, n - 1) + vec[n][2]

\* pack_data: the fields << data, bits >> joined most significant first; a
\* field of 64 bits or more and a u8 sum over 255 overflow
pack_data(vec) ==
    IF (\E i \in DOMAIN vec : vec[i][2] >= 64) \/ TotalBits(vec, Len(vec)) > 255
    THEN Panic
    ELSE LET total_bits == TotalBits(vec, Len(vec))
             total_bytes == (total_bits \div 8) + (IF total_bits % 8 > 0 THEN 1 ELSE 0)
         IN  Ok(BitsToBytes(LastBits(Merged(vec, Len(vec)), 8 * total_bytes)))

\* the sum of bits[idx + 1 ..]
RECURSIVE BitsAfter(_, _)
BitsAfter(bits, idx) ==
    IF idx >= Len(bits) THEN 0 ELSE bits[idx + 1] + BitsAfter(bits, idx + 1)

\* unpack_data: the fields of the big-endian number `vec`, the last field in
\* the lowest bits
unpack_data(vec, bits) ==
    IF \E i \in DOMAIN bits : bits[i] >= 64 THEN Panic
    ELSE Ok([idx \in 1..Len(bits) |->
                << LastBits(LastBits(SubSeq(vec_to_u64(vec), 1, 64 - BitsAfter(bits, idx)),
                                     bits[idx]), 64),
                   bits[idx] >>])

\* pack_data in a build without overflow checks: a shift by `bits` is a
\* shift by bits % 64 and the u8 sum wraps
pack_data_wrapping(vec) ==
    LET w == [i \in DOMAIN vec |-> << vec[i][1], vec[i][2] % 64 >>]
        total_bits == TotalBits(vec, Len(vec)) % 256
        total_bytes == (total_bits \div 8) + (IF total_bits % 8 > 0 THEN 1 ELSE 0)
    IN  Ok(BitsToBytes(LastBits(Merged(w, Len(w)), 8 * total_bytes)))

\* unpack_data in a build without overflow checks
unpack_data_wrapping(vec, bits) ==
    LET w == [i \in DOMAIN bits |-> bits[i] % 64]
    IN  Ok([idx \in 1..Len(bits) |->
               << LastBits(LastBits(SubSeq(vec_to_u64(vec), 1, 64 - BitsAfter(w, idx)),
                                    w[idx]), 64),
                  bits[idx] >>])

\* should_trigger_pdo that takes every SYNC and every tick of a synchronous
\* or event-driven slot, whatever the counter
should_trigger_pdo_every_time(is_sync, event, transmission_type, event_times, count) ==
    IF is_sync
    THEN ~(transmission_type = 0 \/ transmission_type > 240)
    ELSE IF event = "NodeStart" THEN TRUE
    ELSE IF transmission_type # 254 /\ transmission_type # 255 THEN FALSE
    ELSE ~(event_times = 0)

\* should_trigger_pdo that takes the types above 240 as synchronous with
\* period 1
should_trigger_pdo_reserved_on_sync(is_sync, event, transmission_type, event_times, count) ==
    IF is_sync
    THEN ~(transmission_type = 0
           \/ (transmission_type <= 240 /\ count % transmission_type # 0))
    ELSE IF event = "NodeStart" THEN TRUE
    ELSE IF transmission_type # 254 /\ transmission_type # 255 THEN FALSE
    ELSE ~(event_times = 0 \/ count % event_times # 0)

\* should_trigger_pdo
should_trigger_pdo(is_sync, event, transmission_type, event_times, count) ==
    IF is_sync
    THEN ~(transmission_type = 0 \/ transmission_type > 240
           \/ count % transmission_type # 0)
    ELSE IF event = "NodeStart" THEN TRUE
    ELSE IF transmission_type # 254 /\ transmission_type # 255 THEN FALSE
    ELSE ~(event_times = 0 \/ count % event_times # 0)

\* gen_pdo_frame, the loop over mappings[i..num_of_map_objs): the directory
\* after the reads and Ok(the fields read)
RECURSIVE ReadMapped(_, _, _, _)
ReadMapped(od, pdo, i, t) ==
    IF i >= pdo.num_of_map_objs THEN [od |-> od, res |-> Ok(t)]
    ELSE Let(MappingAt(pdo, i), LAMBDA m :
         Let(get_variable(od, m[1], m[2]), LAMBDA g :
             IF g.res.kind = "Ok"
             THEN ReadMapped(g.od, pdo, i + 1,
                             Append(t, << vec_to_u64(g.res.v.default_value), m[3] >>))
             ELSE [od |-> g.od, res |-> Err("GeneralError")]))

\* gen_pdo_frame for the slot pdo.  StandardId::new(cob_id).unwrap() panics
\* over 0x7FF and Frame::new(..).unwrap() on more than 8 bytes
gen_pdo_frame(self, pdo) ==
    Let(ReadMapped(self.object_directory, pdo, 0, << >>), LAMBDA r :
    Let([self EXCEPT !.object_directory = r.od], LAMBDA s1 :
        IF r.res.kind = "Err" THEN [self |-> s1, res |-> r.res]
        ELSE Let(pack_data(r.res.v), LAMBDA packet :
                 IF packet.kind = "Panic" \/ pdo.cob_id > 2047 THEN [self |-> s1, res |-> Panic]
                 ELSE IF Len(packet.v) > 8 THEN [self |-> s1, res |-> Panic]
                 ELSE [self |-> s1, res |-> Ok([id |-> pdo.cob_id, data |-> packet.v])])))

\* transmit_pdo_messages, the loop from slot i on; the slice
\* mappings[0..num_of_map_objs] panics over 64
RECURSIVE TransmitFrom(_, _, _, _, _)
TransmitFrom(self, i, is_sync, event, count) ==
    IF i > 3 THEN [self |-> self, res |-> Ok(<< >>)]
    ELSE Let(self.pdo_objects.tpdos[i], LAMBDA pdo :
         IF ~pdo.is_pdo_valid
            \/ ~should_trigger_pdo(is_sync, event, pdo.transmission_type,
                                   pdo.event_timer, count)
         THEN TransmitFrom(self, i + 1, is_sync, event, count)
         ELSE IF pdo.num_of_map_objs > MAX_PDO_MAPPING_LENGTH
         THEN [self |-> self, res |-> Panic]
         ELSE Let(gen_pdo_frame(self, pdo), LAMBDA g :
                  CASE g.res.kind = "Panic" -> g
                    [] g.res.kind = "Err" ->
                          TransmitFrom(g.self, i + 1, is_sync, event, count)
                    [] g.res.kind = "Ok" ->
                          TransmitFrom(transmit(g.self, g.res.v), i + 1,
                                       is_sync, event, count)))

transmit_pdo_messages(self, is_sync, event, count) ==
    TransmitFrom(self, 0, is_sync, event, count)

\* ObjectDirectory::set_value_with_fitting_size (object_directory.rs)
set_value_with_fitting_size(od, index, sub_index, data) ==
    Let(get_mut_variable(od, index, sub_index), LAMBDA r :
        IF r.res.kind = "Err" THEN r.od
        ELSE Let(VarAt(r.od, index, sub_index), LAMBDA var :
                 IF ~is_writable(var.access_type) THEN r.od
                 ELSE IF size(var.data_type) > Len(data) THEN r.od
                 ELSE SetData(r.od, index, sub_index, Slice(data, 0, size(var.data_type)))))

\* save_rpdo_messages, the loop that writes the fields r[idx..] to the
\* directory
RECURSIVE CommitFields(_, _, _, _)
CommitFields(od, pdo, r, idx) ==
    IF idx >= pdo.num_of_map_objs THEN od
    ELSE Let(MappingAt(pdo, idx), LAMBDA m :
             CommitFields(set_value_with_fitting_size(od, m[1], m[2],
                                                      u64_to_le_bytes(r[idx + 1][1])),
                          pdo, r, idx + 1))

\* save_rpdo_messages, the loop from slot i on
RECURSIVE SaveFrom(_, _, _, _, _)
SaveFrom(self, i, is_sync, event, count) ==
    IF i > 3 THEN [self |-> self, res |-> Ok(<< >>)]
    ELSE Let(self.pdo_objects.rpdos[i], LAMBDA pdo :
         IF ~pdo.is_pdo_valid
            \/ ~should_trigger_pdo(is_sync, event, pdo.transmission_type,
                                   pdo.event_timer, count)
            \/ Len(pdo.cached_data) = 0
         THEN SaveFrom(self, i + 1, is_sync, event, count)
         ELSE IF pdo.num_of_map_objs > MAX_PDO_MAPPING_LENGTH
         THEN [self |-> self, res |-> Panic]
         ELSE Let(unpack_data(pdo.cached_data,
                              [ii \in 1..pdo.num_of_map_objs |-> MappingAt(pdo, ii - 1)[3]]),
                  LAMBDA r :
                  IF r.kind = "Panic" THEN [self |-> self, res |-> Panic]
                  ELSE SaveFrom(
                           [self EXCEPT
                               !.object_directory = CommitFields(@, pdo, r.v, 0),
                               !.pdo_objects.rpdos[i].cached_data = << >>],
                           i + 1, is_sync, event, count)))

save_rpdo_messages(self, is_sync, event, count) ==
    SaveFrom(self, 0, is_sync, event, count)

-----------------------------------------------------------------------------
(* emergency.rs and node.rs: emergencies, RPDO frames, NMT commands, the   *)
(* directory resets, SYNC and the timer.                                   *)

\* constant.rs
COB_FUNC_SYNC == 128
REG_ERROR == 4097
REG_PRE_DEFINED_ERROR == 4099
REG_PRODUCER_HEARTBEAT_TIME == 4119
EMCY_PDO_NOT_PROCESSED == 33296

\* util.rs create_frame_with_padding; every COB-ID used with it is below 0x800
create_frame_with_padding(cob_id, data) ==
    [id |-> cob_id, data |-> [i \in 1..8 |-> IF i <= Len(data) THEN data[i] ELSE 0]]

\* trigger_emergency for error code eec and error register code erc; the
\* u8 sum error_count + 1 overflows at 255
trigger_emergency(self, eec, erc, data) ==
    LET eec_arr == to_le_bytes(eec, 2)
        id == BitOr(COB_FUNC_SYNC, node_id)
        tmp_count == self.error_count + 1
    IN  Let(transmit(self, create_frame_with_padding(id, eec_arr \o << erc >> \o data)),
            LAMBDA s1 :
        IF tmp_count > 255 THEN [self |-> s1, res |-> Panic]
        ELSE
        Let(set_value(s1.object_directory, REG_PRE_DEFINED_ERROR, 0, << tmp_count >>, TRUE),
            LAMBDA w1 :
        IF w1.res.kind = "Err" THEN [self |-> [s1 EXCEPT !.object_directory = w1.od], res |-> w1.res]
        ELSE
        Let(set_value(w1.od, REG_PRE_DEFINED_ERROR, tmp_count, eec_arr \o << 0, 0 >>, TRUE),
            LAMBDA w2 :
        IF w2.res.kind = "Err" THEN [self |-> [s1 EXCEPT !.object_directory = w2.od], res |-> w2.res]
        ELSE
        Let(set_value(w2.od, REG_ERROR, 0, << erc >>, TRUE), LAMBDA w3 :
        IF w3.res.kind = "Err" THEN [self |-> [s1 EXCEPT !.object_directory = w3.od], res |-> w3.res]
        ELSE [self |-> transmit([s1 EXCEPT !.object_directory = w3.od,
                                           !.error_count = tmp_count],
                                create_frame_with_padding(id, << 0, 0, 0 >> \o data)),
              res |-> Ok(<< >>)]))))

\* PdoObjects::get_mut_rpdo_with_cob_id: the RPDO slot cob_to_index names
get_mut_rpdo_with_cob_id(pdo_objs, cob_id) ==
    IF cob_id \in DOMAIN pdo_objs.cob_to_index
    THEN Ok(pdo_objs.cob_to_index[cob_id])
    ELSE Err("NoPdoObject")

\* process_rpdo_frame: an error of the closure is logged and dropped
process_rpdo_frame(self, frame) ==
    Let(get_mut_rpdo_with_cob_id(self.pdo_objects, frame.id), LAMBDA slot :
        IF slot.kind = "Err" THEN [self |-> self, res |-> Ok(<< >>)]
        ELSE IF Len(frame.data) # (self.pdo_objects.rpdos[slot.v].total_length + 7) \div 8
        THEN Let(trigger_emergency(self, EMCY_PDO_NOT_PROCESSED, 0, to_le_bytes(frame.id, 2)),
                 LAMBDA e :
                 IF e.res.kind = "Panic" THEN e ELSE [self |-> e.self, res |-> Ok(<< >>)])
        ELSE [self |-> [self EXCEPT !.pdo_objects.rpdos[slot.v].cached_data = frame.data],
              res |-> Ok(<< >>)])

\* a heartbeat code that reports Operational as PreOperational
heartbeat_code_pre_operational(node_state) ==
    CASE node_state = "Init" -> 0
      [] node_state = "PreOperational" -> 127
      [] node_state = "Operational" -> 127
      [] node_state = "Stopped" -> 4

\* NodeState::heartbeat_code
heartbeat_code(node_state) ==
    CASE node_state = "Init" -> 0
      [] node_state = "PreOperational" -> 127
      [] node_state = "Operational" -> 5
      [] node_state = "Stopped" -> 4

\* reset_object_directory_range: every index to reset is removed and, when
\* the backup has it, put back from the backup
reset_object_directory_range(self, range, full_range) ==
    LET od == self.object_directory
        indexes_to_reset == IF full_range THEN DOMAIN od
                            ELSE { index \in DOMAIN od : index \in range }
    IN  [self EXCEPT !.object_directory =
            [index \in (DOMAIN od \ indexes_to_reset)
                       \cup (indexes_to_reset \cap DOMAIN self.backup_od) |->
                IF index \in indexes_to_reset THEN self.backup_od[index] ELSE od[index]]]

\* reset_application: 0x6000..=0x9FFF
reset_application(self) == reset_object_directory_range(self, 24576..40959, FALSE)

\* reset_communication with full_range set
reset_communication_full_range(self) == reset_object_directory_range(self, 4096..8191, TRUE)

\* reset_communication: 0x1000..=0x1FFF
reset_communication(self) == reset_object_directory_range(self, 4096..8191, FALSE)

\* reset: every index of the directory
reset(self) == reset_object_directory_range(self, 4096..40959, TRUE)

\* call_tpdo
call_tpdo(self, is_sync, event, count) == transmit_pdo_messages(self, is_sync, event, count)

\* trigger_event
trigger_event(self, event) ==
    IF event = "NodeStart"
    THEN call_tpdo([self EXCEPT !.event_count = 0, !.sync_count = 0,
                                !.error_count = 0, !.heartbeats = 0],
                   FALSE, event, 0)
    ELSE [self |-> self, res |-> Ok(<< >>)]

\* process_nmt_frame without the check of the target node id
process_nmt_frame_any_target(self, frame) ==
    IF Len(frame.data) # 2 THEN [self |-> self, res |-> Ok(<< >>)]
    ELSE LET cs == At(frame.data, 0)
         IN  CASE cs = 1 ->
                     trigger_event([self EXCEPT !.state = "Operational"], "NodeStart")
                [] cs = 2 ->
                     [self |-> IF self.state # "Init"
                               THEN [self EXCEPT !.state = "Stopped"] ELSE self,
                      res |-> Ok(<< >>)]
                [] cs = 128 ->
                     [self |-> [self EXCEPT !.state = "PreOperational"], res |-> Ok(<< >>)]
                [] cs = 129 ->
                     [self |-> reset([self EXCEPT !.state = "Init"]), res |-> Ok(<< >>)]
                [] cs = 130 ->
                     [self |-> reset_communication([self EXCEPT !.state = "Init"]),
                      res |-> Ok(<< >>)]
                [] OTHER -> [self |-> self, res |-> Ok(<< >>)]

\* process_nmt_frame
process_nmt_frame(self, frame) ==
    IF Len(frame.data) # 2 THEN [self |-> self, res |-> Ok(<< >>)]
    ELSE LET cs == At(frame.data, 0)
             nid == At(frame.data, 1)
         IN  IF nid # node_id THEN [self |-> self, res |-> Ok(<< >>)]
             ELSE CASE cs = 1 ->
                         trigger_event([self EXCEPT !.state = "Operational"], "NodeStart")
                    [] cs = 2 ->
                         [self |-> IF self.state # "Init"
                                   THEN [self EXCEPT !.state = "Stopped"] ELSE self,
                          res |-> Ok(<< >>)]
                    [] cs = 128 ->
                         [self |-> [self EXCEPT !.state = "PreOperational"],
                          res |-> Ok(<< >>)]
                    [] cs = 129 ->
                         [self |-> reset([self EXCEPT !.state = "Init"]), res |-> Ok(<< >>)]
                    [] cs = 130 ->
                         [self |-> reset_communication([self EXCEPT !.state = "Init"]),
                          res |-> Ok(<< >>)]
                    [] OTHER -> [self |-> self, res |-> Ok(<< >>)]

\* process_sync_frame without the check of the node state
process_sync_frame_ungated(self) ==
    Let([self EXCEPT !.sync_count = @ + 1], LAMBDA s1 :
    Let(save_rpdo_messages(s1, TRUE, "Unused", s1.sync_count), LAMBDA r :
        IF r.res.kind = "Panic" THEN r
        ELSE call_tpdo(r.self, TRUE, "Unused", s1.sync_count)))

\* process_sync_frame
process_sync_frame(self) ==
    IF self.state = "Operational"
    THEN Let([self EXCEPT !.sync_count = @ + 1], LAMBDA s1 :
         Let(save_rpdo_messages(s1, TRUE, "Unused", s1.sync_count), LAMBDA r :
             IF r.res.kind = "Panic" THEN r
             ELSE call_tpdo(r.self, TRUE, "Unused", s1.sync_count)))
    ELSE [self |-> self, res |-> Ok(<< >>)]

\* event_timer_callback
event_timer_callback(self) ==
    Let(IF self.heartbeats_timer > 0
        THEN Let([self EXCEPT !.heartbeats = @ + 1], LAMBDA h :
                 IF h.heartbeats % h.heartbeats_timer = 0
                 THEN transmit(h, [id |-> 1792 + node_id,
                                   data |-> << heartbeat_code(h.state) >>])
                 ELSE h)
        ELSE self, LAMBDA s0 :
        IF s0.state = "Operational"
        THEN Let([s0 EXCEPT !.event_count = @ + 1], LAMBDA s1 :
             Let(save_rpdo_messages(s1, FALSE, "RegularTimerEvent", s1.event_count),
                 LAMBDA r :
                 IF r.res.kind = "Panic" THEN r
                 ELSE call_tpdo(r.self, FALSE, "RegularTimerEvent", s1.event_count)))
        ELSE [self |-> s0, res |-> Ok(<< >>)])

\* process_one_frame, `match cob_id & 0xFF80`
Dispatch(self, frame) ==
    LET func == BitAnd(frame.id, 65408)
    IN  CASE func = 0 -> process_nmt_frame(self, frame)
          [] func >= 512 /\ func <= 1280 -> process_rpdo_frame(self, frame)
          [] func = 128 -> process_sync_frame(self)
          [] func = 1536 -> process_sdo_frame(self, frame)
          [] OTHER -> [self |-> self, res |-> Ok(<< >>)]

-----------------------------------------------------------------------------
(* The object directory the node is built from.  It has one entry of each  *)
(* kind the SDO server distinguishes: read-only, write-only and read-write *)
(* variables, a string, an array, a record, and the PDO parameter records. *)

\* build_variable
Variable(index, sub_index, data_type, access, pdo_mappable, default_value) ==
    [index |-> index, sub_index |-> sub_index, data_type |-> data_type,
     default_value |-> default_value, pdo_mappable |-> pdo_mappable,
     access_type |-> [read_access |-> access \in {"rw", "ro"},
                      write_access |-> access \in {"rw", "wo"}]]

\* process_section, ObjectType 7
VariableObject(var) == [kind |-> "Variable", var |-> var]

\* process_section, ObjectType 8 / 9 with their sub-sections
CompoundObject(kind, members) ==
    [kind |-> kind,
     index_to_variable |-> [si \in {members[i].sub_index : i \in DOMAIN members} |->
                               members[CHOOSE i \in DOMAIN members : members[i].sub_index = si]]]

\* "CANopenDemoPIC32", the device name of the demo EDS
DemoName == << 67, 65, 78, 111, 112, 101, 110, 68, 101, 109, 111, 80, 73, 67, 51, 50 >>

\* the longest device name the node is built with
MaxNameLen == 15

\* the length of a device name that takes 38 segments
LongNameLen == 260

\* a device name of len bytes: "CANopenDemoPIC32", cut or repeated
NameOf(len) == [i \in 1..len |-> DemoName[((i - 1) % Len(DemoName)) + 1]]

\* ObjectDirectory::new for an EDS whose device name (0x1008) is `name`
ObjectDirectory_new(name) ==
    (4096 :> VariableObject(Variable(4096, 0, "Unsigned32", "ro", FALSE, << 145, 1, 15, 0 >>)))
    @@ (4097 :> VariableObject(Variable(4097, 0, "Unsigned8", "ro", FALSE, << 0 >>)))
    @@ (4099 :> CompoundObject("Array", <<
            Variable(4099, 0, "Unsigned8", "ro", FALSE, << 1 >>),
            Variable(4099, 1, "Unsigned32", "rw", FALSE, << 0, 0, 0, 0 >>) >>))
    @@ (4104 :> VariableObject(Variable(4104, 0, "VisibleString", "ro", FALSE, name)))
    @@ (4119 :> VariableObject(Variable(4119, 0, "Unsigned16", "rw", FALSE, << 0, 0 >>)))
    @@ (4120 :> CompoundObject("Record", <<
            Variable(4120, 0, "Unsigned8", "ro", FALSE, << 1 >>),
            Variable(4120, 1, "Unsigned32", "ro", FALSE, << 120, 86, 52, 18 >>) >>))
    @@ (5120 :> CompoundObject("Record", <<
            Variable(5120, 0, "Unsigned8", "ro", FALSE, << 2 >>),
            Variable(5120, 1, "Unsigned32", "rw", FALSE, << 2, 2, 0, 0 >>),
            Variable(5120, 2, "Unsigned8", "rw", FALSE, << 255 >>) >>))
    @@ (5632 :> CompoundObject("Record", <<
            Variable(5632, 0, "Unsigned8", "rw", FALSE, << 1 >>),
            Variable(5632, 1, "Unsigned32", "rw", FALSE, << 8, 0, 0, 96 >>) >>))
    @@ (6144 :> CompoundObject("Record", <<
            Variable(6144, 0, "Unsigned8", "ro", FALSE, << 5 >>),
            Variable(6144, 1, "Unsigned32", "rw", FALSE, << 130, 1, 0, 0 >>),
            Variable(6144, 2, "Unsigned8", "rw", FALSE, << 1 >>),
            Variable(6144, 3, "Unsigned16", "rw", FALSE, << 0, 0 >>),
            Variable(6144, 5, "Unsigned16", "rw", FALSE, << 0, 0 >>) >>))
    @@ (6656 :> CompoundObject("Record", <<
            Variable(6656, 0, "Unsigned8", "ro", FALSE, << 1 >>),
            Variable(6656, 1, "Unsigned32", "ro", FALSE, << 16, 0, 1, 96 >>) >>))
    @@ (6657 :> CompoundObject("Record", <<
            Variable(6657, 0, "Unsigned8", "rw", FALSE, << 0 >>),
            Variable(6657, 1, "Unsigned32", "rw", FALSE, << 0, 0, 0, 0 >>),
            Variable(6657, 2, "Unsigned32", "rw", FALSE, << 0, 0, 0, 0 >>) >>))
    @@ (8192 :> VariableObject(Variable(8192, 0, "Unsigned8", "wo", FALSE, << 0 >>)))
    @@ (8193 :> VariableObject(Variable(8193, 0, "VisibleString", "rw", FALSE, << 97, 98 >>)))
    @@ (24576 :> VariableObject(Variable(24576, 0, "Unsigned8", "rw", TRUE, << 0 >>)))
    @@ (24577 :> VariableObject(Variable(24577, 0, "Unsigned16", "ro", TRUE, << 0, 0 >>)))

\* the node as a record of its fields
Self ==
    [object_directory |-> object_directory, pdo_objects |-> pdo_objects,
     sdo_state |-> sdo_state, read_buf |-> read_buf, read_buf_index |-> read_buf_index,
     next_read_toggle |-> next_read_toggle, write_buf |-> write_buf,
     reserved_index |-> reserved_index, reserved_sub_index |-> reserved_sub_index,
     write_data_size |-> write_data_size, need_crc |-> need_crc,
     block_size |-> block_size, current_seq_number |-> current_seq_number,
     heartbeats_timer |-> heartbeats_timer, sync_count |-> sync_count,
     event_count |-> event_count, state |-> state, error_count |-> error_count,
     heartbeats |-> heartbeats, backup_od |-> backup_od, can_network |-> can_network]

DEFAULT_BLOCK_SIZE == 127

\* Node::new, up to and including update_pdo_params
Node_new(name) ==
    update_pdo_params(
        [object_directory |-> ObjectDirectory_new(name), pdo_objects |-> PdoObjects_new,
         sdo_state |-> "Normal", read_buf |-> None, read_buf_index |-> 0,
         next_read_toggle |-> 0, write_buf |-> None,
         reserved_index |-> 0, reserved_sub_index |-> 0,
         write_data_size |-> 0, need_crc |-> FALSE,
         block_size |-> DEFAULT_BLOCK_SIZE, current_seq_number |-> 0,
         heartbeats_timer |-> 0, sync_count |-> 0, event_count |-> 0,
         state |-> "Init", error_count |-> 0, heartbeats |-> 0,
         backup_od |-> ObjectDirectory_new(name), can_network |-> << >>])

\* the variables take the fields of node s
Store(s) ==
    /\ object_directory' = s.object_directory
    /\ pdo_objects' = s.pdo_objects
    /\ sdo_state' = s.sdo_state
    /\ read_buf' = s.read_buf
    /\ read_buf_index' = s.read_buf_index
    /\ next_read_toggle' = s.next_read_toggle
    /\ write_buf' = s.write_buf
    /\ reserved_index' = s.reserved_index
    /\ reserved_sub_index' = s.reserved_sub_index
    /\ write_data_size' = s.write_data_size
    /\ need_crc' = s.need_crc
    /\ block_size' = s.block_size
    /\ current_seq_number' = s.current_seq_number
    /\ heartbeats_timer' = s.heartbeats_timer
    /\ sync_count' = s.sync_count
    /\ event_count' = s.event_count
    /\ state' = s.state
    /\ error_count' = s.error_count
    /\ heartbeats' = s.heartbeats
    /\ can_network' = s.can_network

\* the node built from an EDS whose device name is `name`
InitNode(name) ==
    \E n \in { Node_new(name) } :
        /\ n.res.kind = "Ok"
        /\ object_directory = n.self.object_directory
        /\ backup_od = n.self.backup_od
        /\ pdo_objects = n.self.pdo_objects
        /\ sdo_state = n.self.sdo_state
        /\ read_buf = n.self.read_buf
        /\ read_buf_index = n.self.read_buf_index
        /\ next_read_toggle = n.self.next_read_toggle
        /\ write_buf = n.self.write_buf
        /\ reserved_index = n.self.reserved_index
        /\ reserved_sub_index = n.self.reserved_sub_index
        /\ write_data_size = n.self.write_data_size
        /\ need_crc = n.self.need_crc
        /\ block_size = n.self.block_size
        /\ current_seq_number = n.self.current_seq_number
        /\ heartbeats_timer = n.self.heartbeats_timer
        /\ sync_count = n.self.sync_count
        /\ event_count = n.self.event_count
        /\ state = n.self.state
        /\ error_count = n.self.error_count
        /\ heartbeats = n.self.heartbeats
        /\ can_network = n.self.can_network
        /\ halted = FALSE

\* no bit packing is under way
Idle == fields = << >> /\ packed = None /\ unpacked = None

Init == InitNode(DemoName) /\ Idle

-----------------------------------------------------------------------------
(* The frames a client sends.  Every family is offered in every state.     *)

\* an SDO request of a client to node `to_node`
Request(to_node, cmd, index, sub_index, data) ==
    [id |-> 1536 + to_node, data |-> << cmd >> \o to_le_bytes(index, 2) \o << sub_index >> \o data]

\* the (index, sub-index) pairs the clients address
Addresses ==
    { << 4096, 0 >>, << 4096, 1 >>, << 4099, 1 >>, << 4099, 2 >>, << 4099, 255 >>,
      << 4100, 0 >>, << 4104, 0 >>, << 4119, 0 >>, << 4120, 1 >>, << 4120, 9 >>,
      << 5120, 1 >>, << 5120, 2 >>, << 5632, 0 >>, << 5632, 1 >>, << 6656, 1 >>,
      << 8192, 0 >>, << 8193, 0 >>, << 24576, 0 >> }

\* the addresses of the multi-frame transfers
LongAddresses == { << 4100, 0 >>, << 4104, 0 >>, << 4119, 0 >> }

\* the data bytes 4..7 the clients write to an address
Payloads(a) ==
    CASE a = << 4119, 0 >> -> { << 232, 3, 0, 0 >> }
      [] a = << 5120, 1 >> -> { << 2, 2, 0, 0 >> }
      [] a = << 5120, 2 >> -> { << 255, 0, 0, 0 >> }
      [] a = << 5632, 0 >> -> { << 1, 0, 0, 0 >> }
      [] a = << 5632, 1 >> -> { << 16, 0, 1, 96 >>, << 8, 0, 0, 32 >> }
      [] a = << 6656, 1 >> -> { << 8, 0, 0, 96 >> }
      [] OTHER -> { << 7, 0, 0, 0 >> }

\* the seven data bytes of a segment
SegmentData == << 232, 3, 0, 0, 0, 0, 0 >>

InitiateUploadRequests ==
    { Request(node_id, 64, a[1], a[2], << 0, 0, 0, 0 >>) : a \in Addresses }

\* expedited downloads of 4, 2 and 1 bytes
ExpeditedDownloadRequests ==
    UNION { { Request(node_id, cmd, a[1], a[2], d) : d \in Payloads(a), cmd \in { 35, 43, 47 } }
            : a \in Addresses }

\* segmented download: initiate with and without a size, then segments
InitiateDownloadRequests ==
    { Request(node_id, c[1], a[1], a[2], to_le_bytes(c[2], 4))
        : c \in { << 33, 2 >>, << 32, 0 >> }, a \in LongAddresses }

DownloadSegmentRequests ==
    { [id |-> 1536 + node_id, data |-> << t * 16 + n * 2 + c >> \o SegmentData]
        : t \in { 0, 1 }, n \in { 0, 5 }, c \in { 0, 1 } }

UploadSegmentRequests ==
    { [id |-> 1536 + node_id, data |-> << 96 + t * 16, 0, 0, 0, 0, 0, 0, 0 >>] : t \in { 0, 1 } }

\* block download: initiate, segments, end
InitBlockDownloadRequests ==
    { Request(node_id, c[1], a[1], a[2], to_le_bytes(c[2], 4))
        : c \in { << 194, 2 >>, << 192, 0 >> }, a \in LongAddresses }

BlockDownloadRequests ==
    { [id |-> 1536 + node_id, data |-> << b >> \o SegmentData] : b \in { 1, 2, 129, 130 } }

EndBlockDownloadRequests ==
    { [id |-> 1536 + node_id, data |-> << b, 0, 0, 0, 0, 0, 0, 0 >>] : b \in { 193, 213, 221 } }

\* block upload: initiate, start, confirm
InitBlockUploadRequests ==
    { Request(node_id, c[1], a[1], a[2], << c[2], 0, 0, 0 >>)
        : c \in { << 160, 127 >>, << 164, 127 >>, << 160, 128 >> }, a \in LongAddresses }

StartBlockUploadRequests ==
    { [id |-> 1536 + node_id, data |-> << 163, 0, 0, 0, 0, 0, 0, 0 >>] }

ConfirmBlockUploadRequests ==
    { [id |-> 1536 + node_id, data |-> << 162, c[1], c[2], 0, 0, 0, 0, 0 >>]
        : c \in { << 1, 127 >>, << 2, 127 >>, << 3, 127 >> } }

\* an unknown command, a client abort, and a request to another node
OtherRequests ==
    { Request(node_id, 224, 4096, 0, << 0, 0, 0, 0 >>),
      Request(node_id, 128, 4119, 0, << 0, 0, 0, 5 >>),
      Request(node_id + 1, 64, 4096, 0, << 0, 0, 0, 0 >>) }

\* the address of a request
AddressOf(frame) == << from_le_bytes(Slice(frame.data, 1, 3)), At(frame.data, 3) >>

\* the multi-frame transfers, with the single-frame requests that fail or
\* write what the transfers write
ShortList == LongAddresses \cup { << 4096, 0 >>, << 4096, 1 >>, << 4120, 9 >> }

Requests ==
    { f \in InitiateUploadRequests \cup ExpeditedDownloadRequests : AddressOf(f) \in ShortList }
    \cup InitiateDownloadRequests
    \cup DownloadSegmentRequests \cup UploadSegmentRequests \cup InitBlockDownloadRequests
    \cup BlockDownloadRequests \cup EndBlockDownloadRequests \cup InitBlockUploadRequests
    \cup StartBlockUploadRequests \cup ConfirmBlockUploadRequests \cup OtherRequests

\* the single-frame requests on every address
ObjectRequests == InitiateUploadRequests \cup ExpeditedDownloadRequests \cup OtherRequests

-----------------------------------------------------------------------------
(* The node's step.                                                        *)

\* the outcome of handing `frame` to the node in the current state
Outcome(frame) == Dispatch([Self EXCEPT !.can_network = << >>], frame)

\* Node::process_one_frame for the received frame
process_one_frame(frame) ==
    /\ ~halted
    /\ \E r \in { Outcome(frame) } :
           IF r.res.kind = "Panic"
           THEN /\ halted' = TRUE
                /\ can_network' = r.self.can_network
                /\ UNCHANGED << object_directory, pdo_objects, sdo_state, read_buf,
                                read_buf_index, next_read_toggle, write_buf, reserved_index,
                                reserved_sub_index, write_data_size, need_crc, block_size,
                                current_seq_number, heartbeats_timer, sync_count,
                                event_count, state, error_count, heartbeats >>
           ELSE Store(r.self) /\ UNCHANGED halted
    /\ UNCHANGED << backup_od, fields, packed, unpacked >>

Next == \E frame \in Requests : process_one_frame(frame)

Spec == Init /\ [][Next]_vars

\* the node serving single-frame requests only
ObjectsNext == \E frame \in ObjectRequests : process_one_frame(frame)

SpecObjects == Init /\ [][ObjectsNext]_vars

\* the node built with a device name of any length up to MaxNameLen,
\* serving uploads of that name
UploadRequests ==
    { f \in InitiateUploadRequests \cup InitBlockUploadRequests : AddressOf(f) = << 4104, 0 >> }
    \cup UploadSegmentRequests \cup StartBlockUploadRequests \cup ConfirmBlockUploadRequests

UploadInit ==
    /\ \E len \in (0..MaxNameLen) \cup { LongNameLen } : InitNode(NameOf(len))
    /\ Idle

UploadNext == \E frame \in UploadRequests : process_one_frame(frame)

SpecUpload == UploadInit /\ [][UploadNext]_vars

-----------------------------------------------------------------------------
(* The node under NMT commands, SYNC, RPDO frames and the timer.           *)

\* the largest sync_count and event_count a step starts from
MaxCount == 2

\* the largest error_count an emergency starts from
MaxErrors == 1

\* the largest heartbeats count a timer tick starts from
MaxBeats == 6

\* NMT commands: every command specifier the node knows and an unknown one
\* for this node, a reset for another node, and payloads of 1 and 3 bytes
NmtFrames ==
    { [id |-> 0, data |-> << cs, node_id >>] : cs \in { 1, 2, 128, 129, 130, 3 } }
    \cup { [id |-> 0, data |-> << 129, node_id + 1 >>],
           [id |-> 0, data |-> << 1 >>],
           [id |-> 0, data |-> << 130, node_id, 0 >>] }

\* the SYNC frame
Sync == [id |-> 128, data |-> << >>]

SyncFrames == { Sync }

\* frames on the COB-ID of RPDO 0 with the mapped length and a longer one,
\* and a frame on a COB-ID no slot uses
RpdoFrames ==
    { [id |-> 514, data |-> << 5 >>], [id |-> 514, data |-> << 5, 6 >>],
      [id |-> 516, data |-> << 5 >> ] }

\* SDO requests that change the directory in and out of the communication
\* range: the RPDO 0 and TPDO 0 transmission types, an application object,
\* and a read that materialises 0x1003:2
NmtWrites ==
    { Request(node_id, 47, 5120, 2, << 1, 0, 0, 0 >>),
      Request(node_id, 47, 6144, 2, << 2, 0, 0, 0 >>),
      Request(node_id, 47, 24576, 0, << 7, 0, 0, 0 >>),
      Request(node_id, 64, 4099, 2, << 0, 0, 0, 0 >>) }

\* the counters stay within their bounds
Bounded(frame) ==
    LET func == BitAnd(frame.id, 65408)
    IN  /\ func = 128 => sync_count < MaxCount
        /\ (func >= 512 /\ func <= 1280) => error_count < MaxErrors

NmtNext ==
    \E frame \in NmtFrames \cup SyncFrames \cup RpdoFrames \cup NmtWrites :
        Bounded(frame) /\ process_one_frame(frame)

SpecNmt == Init /\ [][NmtNext]_vars

\* the outcome of a timer tick in the current state
TickOutcome == event_timer_callback([Self EXCEPT !.can_network = << >>])

\* the host's timer calls Node::event_timer_callback
timer_tick ==
    /\ ~halted
    /\ event_count < MaxCount
    /\ heartbeats < MaxBeats
    /\ \E r \in { TickOutcome } :
           IF r.res.kind = "Panic"
           THEN /\ halted' = TRUE
                /\ can_network' = r.self.can_network
                /\ UNCHANGED << object_directory, pdo_objects, sdo_state, read_buf,
                                read_buf_index, next_read_toggle, write_buf, reserved_index,
                                reserved_sub_index, write_data_size, need_crc, block_size,
                                current_seq_number, heartbeats_timer, sync_count,
                                event_count, state, error_count, heartbeats >>
           ELSE Store(r.self) /\ UNCHANGED halted
    /\ UNCHANGED << backup_od, fields, packed, unpacked >>

\* start, stop and enter pre-operational
StateFrames == { [id |-> 0, data |-> << cs, node_id >>] : cs \in { 1, 2, 128 } }

\* SDO writes of the PDO communication parameters: the TPDO 0 transmission
\* type and event timer, the RPDO 0 transmission type and COB-ID (a new
\* identifier, and the old one marked invalid)
PdoWrites ==
    { Request(node_id, 47, 6144, 2, << tt, 0, 0, 0 >>) : tt \in { 0, 2, 241, 254 } }
    \cup { Request(node_id, 43, 6144, 5, << 2, 0, 0, 0 >>),
           Request(node_id, 47, 5120, 2, << 1, 0, 0, 0 >>),
           Request(node_id, 35, 5120, 1, << 3, 2, 0, 0 >>),
           Request(node_id, 35, 5120, 1, << 2, 2, 0, 128 >>) }

\* the frames of the node under SYNC and the timer
PdoFrames ==
    StateFrames \cup SyncFrames \cup PdoWrites \cup { [id |-> 514, data |-> << 5 >>] }

PdoNext ==
    \/ \E frame \in PdoFrames : Bounded(frame) /\ process_one_frame(frame)
    \/ timer_tick

SpecPdo == Init /\ [][PdoNext]_vars

\* SDO writes of the producer heartbeat time 0x1017: off, every 2nd and
\* every 3rd tick
HeartbeatWrites ==
    { Request(node_id, 43, REG_PRODUCER_HEARTBEAT_TIME, 0, << t, 0, 0, 0 >>) : t \in { 0, 2, 3 } }

\* the frames of the node under the heartbeat timer: the state commands, the
\* communication reset, and the writes of 0x1017
HeartbeatFrames ==
    StateFrames \cup HeartbeatWrites \cup { [id |-> 0, data |-> << 130, node_id >>] }

HeartbeatNext ==
    \/ \E frame \in HeartbeatFrames : process_one_frame(frame)
    \/ timer_tick

SpecHeartbeat == Init /\ [][HeartbeatNext]_vars

\* acknowledged SDO writes of PDO parameters: RPDO 0 becomes SYNC-driven,
\* its mapping entry names 16 bits of 0x6000 instead of 8, its count is
\* written again, and TPDO 0 gets the COB-ID 0x800
FaultWrites ==
    { Request(node_id, 47, 5120, 2, << 1, 0, 0, 0 >>),
      Request(node_id, 35, 5632, 1, << 16, 0, 0, 96 >>),
      Request(node_id, 47, 5632, 0, << 1, 0, 0, 0 >>),
      Request(node_id, 35, 6144, 1, << 0, 8, 0, 0 >>) }

\* the frames of the node whose PDO parameters are rewritten while PDOs
\* are exchanged
FaultFrames ==
    { [id |-> 0, data |-> << cs, node_id >>] : cs \in { 1, 2 } }
    \cup SyncFrames \cup FaultWrites \cup { [id |-> 514, data |-> << 5 >>] }

FaultNext ==
    \/ \E frame \in FaultFrames : Bounded(frame) /\ process_one_frame(frame)
    \/ timer_tick

SpecFault == Init /\ [][FaultNext]_vars

\* the bit lengths written into the entries of the TPDO 1 mapping table
EntryBits == { 40, 128 }

\* SDO writes of the TPDO 1 mapping table 0x1A01: each of its two entries
\* names EntryBits bits of the readable 0x6001:0
EntryWrites ==
    { Request(node_id, 35, 6657, si, << bits, 0, 1, 96 >>) : si \in { 1, 2 }, bits \in EntryBits }

\* the write of count n to sub-index 0 of the table
CountWrite(n) == Request(node_id, 47, 6657, 0, << n, 0, 0, 0 >>)

\* the frames of the node whose mapping table is rewritten
MappingFrames == StateFrames \cup EntryWrites \cup { CountWrite(n) : n \in 0..2 }

MappingNext == \E frame \in MappingFrames : process_one_frame(frame)

SpecMapping == Init /\ [][MappingNext]_vars

-----------------------------------------------------------------------------
(* pack_data and unpack_data on their own.                                  *)

\* the most fields of a packet
MaxFields == 3

\* the u64 values 0xFFFFFFFFFFFFFFFF and 0x0123456789ABCDEF
FieldValues ==
    { Repeat(1, 64), BytesToBits(<< 1, 35, 69, 103, 137, 171, 205, 239 >>) }

\* the widths of a field
FieldWidths == { 0, 9, 12, 20, 32, 64 }

\* the sum of the widths of a sequence of widths
RECURSIVE WidthSum(_)
WidthSum(ws) == IF ws = << >> THEN 0 ELSE Head(ws) + WidthSum(Tail(ws))

\* the sequences of 1..MaxFields (value, width) pairs whose widths sum to
\* at most 64
FieldSeqs ==
    UNION { { [i \in 1..n |-> << vs[i], ws[i] >>] :
                vs \in [1..n -> FieldValues],
                ws \in { x \in [1..n -> FieldWidths] : WidthSum(x) <= 64 } } :
            n \in 1..MaxFields }

\* the widths of the fields
WidthsOf(vec) == [i \in DOMAIN vec |-> vec[i][2]]

PackInit ==
    /\ InitNode(DemoName)
    /\ fields \in FieldSeqs
    /\ packed = None
    /\ unpacked = None

\* pack_data(fields), in a build with and in one without overflow checks
pack ==
    /\ packed = None
    /\ \E out \in { pack_data(fields), pack_data_wrapping(fields) } : packed' = Some(out)
    /\ UNCHANGED << node_vars, fields, unpacked >>

\* unpack_data(packet, widths), in either build
unpack ==
    /\ packed.some
    /\ packed.v.kind = "Ok"
    /\ unpacked = None
    /\ \E out \in { unpack_data(packed.v.v, WidthsOf(fields)),
                     unpack_data_wrapping(packed.v.v, WidthsOf(fields)) } :
           unpacked' = Some(out)
    /\ UNCHANGED << node_vars, fields, packed >>

PackNext == pack \/ unpack

SpecPack == PackInit /\ [][PackNext]_vars

-----------------------------------------------------------------------------
(* Properties.                                                             *)

\* the abort frame for abort code c: byte 0 = 0x80, the code in bytes 4..7
IsAbort(frame, c) ==
    /\ At(frame.data, 0) = 128
    /\ Slice(frame.data, 4, 8) = to_le_bytes(code(c), 4)

\* the response a request would get in the current state
Response(frame) == dispatch_sdo_request(Self, frame).res.v.v

\* the node a request would leave behind
After(frame) == dispatch_sdo_request(Self, frame).self

\* C1: in every SDO state, a request whose handler yields an abort code is
\* answered with the abort frame carrying that code, little-endian, in bytes
\* 4..7, and leaves sdo_state = Normal with read_buf and write_buf cleared.
C1_FailureAborts ==
    \A f \in Requests :
        LET h == HandlerResult(Self, f)
            d == dispatch_sdo_request(Self, f)
        IN  (~filter_frame(f) /\ h.res.kind = "Err") =>
                /\ d.res.kind = "Ok" /\ d.res.v.some
                /\ IsAbort(d.res.v.v, h.res.code)
                /\ d.self.sdo_state = "Normal"
                /\ d.self.read_buf = None
                /\ d.self.write_buf = None

\* a segmented upload has just been aborted for its toggle bit: the buffer
\* it held is gone
C1_Witness ==
    /\ Len(can_network) = 1
    /\ IsAbort(can_network[1], "ToggleBitNotAlternated")
    /\ sdo_state = "Normal" /\ read_buf = None /\ write_buf = None
    /\ reserved_index = 4104

\* C2: between two frames a transfer buffer is held exactly when a transfer
\* is in progress.
C2_BufferIffTransfer ==
    ~halted => ((read_buf.some \/ write_buf.some) <=> sdo_state # "Normal")

\* the directory holds a variable at address a
Has(od, a) ==
    /\ a[1] \in DOMAIN od
    /\ IF od[a[1]].kind = "Variable" THEN a[2] = 0
       ELSE a[2] \in DOMAIN od[a[1]].index_to_variable

\* the bytes the directory holds at address a
ValueAt(od, a) == VarAt(od, a[1], a[2]).default_value

\* the acknowledgement of a download segment with toggle t
IsSegmentAck(frame, t) == frame.data = << 32 + 16 * t, 0, 0, 0, 0, 0, 0, 0 >>

\* C3: segmented download works for any number of segments: a non-expedited
\* initiate is acknowledged and enters SegmentDownload; a segment with c=0 is
\* acknowledged, appends its 7 bytes and stays in SegmentDownload; the
\* segment with c=1 commits the buffer, is acknowledged and returns to Normal.
C3_SegmentedDownload ==
    /\ \A f \in InitiateDownloadRequests :
          sdo_state = "Normal" =>
              /\ At(Response(f).data, 0) = 96
              /\ After(f).sdo_state = "SdoSegmentDownload"
    /\ \A f \in DownloadSegmentRequests :
          LET cmd == At(f.data, 0)
              t == SegmentCmd_t(cmd)
          IN  (sdo_state = "SdoSegmentDownload" /\ write_buf.some) =>
                IF ~SegmentCmd_c(cmd)
                THEN /\ IsSegmentAck(Response(f), t)
                     /\ After(f).write_buf = Some(write_buf.v \o Slice(f.data, 1, 8))
                     /\ After(f).sdo_state = "SdoSegmentDownload"
                ELSE LET buf == write_buf.v \o Slice(f.data, 1, 8 - SegmentCmd_n(cmd))
                         a == << reserved_index, reserved_sub_index >>
                     IN  At(Response(f).data, 0) # 128 =>
                            /\ IsSegmentAck(Response(f), t)
                            /\ ValueAt(After(f).object_directory, a) = buf
                            /\ After(f).sdo_state = "Normal"

\* C4: in ConfirmBlockUpload a confirm whose ackseq is ceil(len / 7) gets the
\* final ack (scs = 6, ss = 1) and moves the server to Normal.
C4_ConfirmEndsUpload ==
    \A f \in ConfirmBlockUploadRequests :
        (/\ sdo_state = "ConfirmUploadSdoBlock"
         /\ read_buf.some
         /\ Len(read_buf.v) > 0
         /\ At(f.data, 1) = (Len(read_buf.v) + 6) \div 7) =>
            /\ BitAnd(At(Response(f).data, 0), 227) = 193
            /\ After(f).sdo_state = "Normal"

\* C6: in a segmented upload or download a segment whose toggle bit is not
\* the expected one (0 first, then alternating) is answered with abort
\* ToggleBitNotAlternated and the server is in Normal.
C6_WrongToggleAborts ==
    /\ \A f \in UploadSegmentRequests :
          (/\ sdo_state = "SdoSegmentUpload"
           /\ BitAnd(Shr(At(f.data, 0), 4), 1) # (read_buf_index \div 7) % 2) =>
              /\ IsAbort(Response(f), "ToggleBitNotAlternated")
              /\ After(f).sdo_state = "Normal"
    /\ \A f \in DownloadSegmentRequests :
          (/\ sdo_state = "SdoSegmentDownload"
           /\ write_buf = Some(<< >>)
           /\ SegmentCmd_t(At(f.data, 0)) = 1) =>
              /\ IsAbort(Response(f), "ToggleBitNotAlternated")
              /\ After(f).sdo_state = "Normal"

\* C8: a download to an entry that is not writable is answered with abort
\* AttemptToWriteReadOnlyObject (0x06010002) and leaves the value unchanged.
C8_ReadOnlyAborts ==
    \A f \in ExpeditedDownloadRequests :
        LET a == AddressOf(f)
        IN  (/\ sdo_state = "Normal"
             /\ Has(object_directory, a)
             /\ ~is_writable(VarAt(object_directory, a[1], a[2]).access_type)) =>
                /\ IsAbort(Response(f), "AttemptToWriteReadOnlyObject")
                /\ ValueAt(After(f).object_directory, a) = ValueAt(object_directory, a)

\* the object at index has no sub-index si, and would not create it on access
LacksSubIndex(od, index, si) ==
    CASE od[index].kind = "Variable" -> si # 0
      [] od[index].kind = "Record" -> si \notin DOMAIN od[index].index_to_variable
      [] od[index].kind = "Array" ->
            /\ si \notin DOMAIN od[index].index_to_variable
            /\ ~(0 < si /\ si < 255)

\* C9: an upload or download addressing an index absent from the directory
\* is aborted with ObjectDoesNotExist (0x06020000); one addressing a
\* sub-index an existing Variable, Array or Record does not have is aborted
\* with SubIndexDoesNotExist (0x06090011).
C9_MissingObjectCodes ==
    \A f \in InitiateUploadRequests \cup ExpeditedDownloadRequests :
        LET a == AddressOf(f)
        IN  sdo_state = "Normal" =>
              IF a[1] \notin DOMAIN object_directory
              THEN IsAbort(Response(f), "ObjectDoesNotExistInObjectDictionary")
              ELSE LacksSubIndex(object_directory, a[1], a[2]) =>
                       IsAbort(Response(f), "SubIndexDoesNotExist")

\* the longest data handed to set_value
MaxDataLen == 5

\* the data handed to set_value
TrialData == { SubSeq(SegmentData, 1, n) : n \in 0..MaxDataLen }

\* C10: set_value accepts data only if its length equals the target's type
\* size when that size is non-zero (shorter: DataTypeMismatchLengthTooLow,
\* longer: DataTypeMismatchLengthTooHigh, value unchanged) and accepts data
\* of any length for the variable-length types of size 0.
C10_LengthRule ==
    \A a \in Addresses, d \in TrialData, ignore_access_check \in BOOLEAN :
        (/\ Has(object_directory, a)
         /\ (ignore_access_check
             \/ is_writable(VarAt(object_directory, a[1], a[2]).access_type))) =>
            LET sz == size(VarAt(object_directory, a[1], a[2]).data_type)
                r == set_value(object_directory, a[1], a[2], d, ignore_access_check)
            IN  CASE sz = 0 \/ Len(d) = sz ->
                        r.res.kind = "Ok" /\ ValueAt(r.od, a) = d
                  [] Len(d) < sz ->
                        /\ r.res = Err("DataTypeMismatchLengthTooLow")
                        /\ r.od = object_directory
                  [] Len(d) > sz ->
                        /\ r.res = Err("DataTypeMismatchLengthTooHigh")
                        /\ r.od = object_directory

\* C5: for a readable entry whose value has length L > 4, an initiate upload
\* is answered with 0x41 and L as a 32-bit little-endian size; the upload
\* segment requests with the toggle alternating from 0 then yield exactly
\* ceil(L / 7) segments whose data bytes concatenate to the stored value:
\* segment k carries bytes 7k .. 7k+6 of it, only segment ceil(L / 7) - 1
\* has c = 1, with n = 7 - (its number of bytes), and it returns the server
\* to Normal.
C5_SegmentedUpload ==
    /\ \A f \in InitiateUploadRequests :
          LET a == AddressOf(f)
          IN  (/\ sdo_state = "Normal"
               /\ Has(object_directory, a)
               /\ is_readable(VarAt(object_directory, a[1], a[2]).access_type)
               /\ Len(ValueAt(object_directory, a)) > 4) =>
                  /\ Response(f).data = << 65 >> \o Slice(f.data, 1, 4)
                                        \o to_le_bytes(Len(ValueAt(object_directory, a)), 4)
                  /\ After(f).sdo_state = "SdoSegmentUpload"
                  /\ After(f).reserved_index = a[1]
                  /\ After(f).reserved_sub_index = a[2]
                  /\ After(f).read_buf_index = 0
    /\ sdo_state = "SdoSegmentUpload" =>
          /\ read_buf_index % 7 = 0
          /\ read_buf_index < Len(ValueAt(object_directory,
                                          << reserved_index, reserved_sub_index >>))
    /\ \A f \in UploadSegmentRequests :
          LET value == ValueAt(object_directory, << reserved_index, reserved_sub_index >>)
              k == read_buf_index \div 7
              t == BitAnd(Shr(At(f.data, 0), 4), 1)
              bytes == Slice(value, 7 * k, Min(Len(value), 7 * k + 7))
              last == (k + 1 = (Len(value) + 6) \div 7)
          IN  (sdo_state = "SdoSegmentUpload" /\ t = k % 2) =>
                 /\ At(Response(f).data, 0) =
                        16 * t + (IF last THEN 1 + 2 * (7 - Len(bytes)) ELSE 0)
                 /\ Slice(Response(f).data, 1, 1 + Len(bytes)) = bytes
                 /\ IF last THEN After(f).sdo_state = "Normal"
                    ELSE /\ After(f).sdo_state = "SdoSegmentUpload"
                         /\ After(f).read_buf_index = 7 * (k + 1)

\* the third and last segment of a 15-byte name has just been sent: one byte,
\* n = 6, c = 1, toggle 0
C5_Witness ==
    /\ Len(ValueAt(object_directory, << 4104, 0 >>)) = 15
    /\ can_network = << [id |-> 1408 + node_id, data |-> << 13, 51, 0, 0, 0, 0, 0, 0 >>] >>
    /\ sdo_state = "Normal"
    /\ read_buf = None

\* the expedited upload reply for the bytes `value` at address a
ExpeditedReply(a, value) ==
    flatten(<< 67 + 4 * (4 - Len(value)) >> \o to_le_bytes(a[1], 2) \o << a[2] >> \o value)

\* the acknowledgement 0x60 of a download to address a
DownloadAck(a) ==
    [id |-> 1408 + node_id, data |-> << 96 >> \o to_le_bytes(a[1], 2) \o << a[2], 0, 0, 0, 0 >>]

\* an expedited download acknowledged with 0x60 has stored its n data bytes
\* in a writable entry of type size n
C7_Stored ==
    \A f \in ExpeditedDownloadRequests :
        LET a == AddressOf(f)
            n == 4 - InitiateCmd_n(At(f.data, 0))
        IN  (sdo_state = "Normal" /\ Response(f) = DownloadAck(a)) =>
                /\ Has(After(f).object_directory, a)
                /\ ValueAt(After(f).object_directory, a) = Slice(f.data, 4, 4 + n)
                /\ is_writable(VarAt(After(f).object_directory, a[1], a[2]).access_type)
                /\ size(VarAt(After(f).object_directory, a[1], a[2]).data_type) = n

\* an initiate upload, served in Normal, of a readable entry holding 1..4
\* bytes returns exactly those bytes in an expedited reply
C7_Returned ==
    \A f \in InitiateUploadRequests :
        LET a == AddressOf(f)
        IN  (/\ sdo_state = "Normal"
             /\ Has(object_directory, a)
             /\ is_readable(VarAt(object_directory, a[1], a[2]).access_type)
             /\ Len(ValueAt(object_directory, a)) \in 1..4) =>
                Response(f).data = ExpeditedReply(a, ValueAt(object_directory, a))

\* the bytes of an entry change only in a step that serves a download to it
C7_Untouched ==
    \A a \in Addresses :
        Has(object_directory, a) =>
            \/ /\ Has(object_directory', a)
               /\ ValueAt(object_directory', a) = ValueAt(object_directory, a)
            \/ \E f \in ExpeditedDownloadRequests :
                  /\ AddressOf(f) = a
                  /\ object_directory' = After(f).object_directory

\* C7 (amended): after an expedited download of n bytes (1..4) to an entry
\* that is writable and readable and whose type size is n is acknowledged
\* with 0x60, an initiate upload of the same (index, sub-index) served in
\* Normal returns exactly those n bytes in an expedited reply, for as long as
\* no later write touches that entry.
C7_WriteThenRead == [](C7_Stored /\ C7_Returned) /\ [][C7_Untouched]_vars

\* 0x1017 holds the two bytes E8 03 a download stored, and the upload that
\* was just served returned them
C7_Witness ==
    /\ ValueAt(object_directory, << 4119, 0 >>) = << 232, 3 >>
    /\ can_network = << [id |-> 1408 + node_id,
                         data |-> ExpeditedReply(<< 4119, 0 >>, << 232, 3 >>)] >>

\* C7 as stated: right after an expedited download to a writable entry was
\* acknowledged with 0x60, an upload of the same (index, sub-index) returns
\* the stored bytes in an expedited reply.
C7_AsStated ==
    \A f \in InitiateUploadRequests :
        LET a == AddressOf(f)
        IN  (sdo_state = "Normal" /\ can_network = << DownloadAck(a) >>) =>
                Response(f).data = ExpeditedReply(a, ValueAt(object_directory, a))

\* the frames a start request puts on the bus itself, and what it returns
Started(frame) == dispatch_sdo_request([Self EXCEPT !.can_network = << >>], frame)

\* byte 0 and the data bytes of segment k of n, for the bytes `value`
IsBlockSegment(frame, value, k, n) ==
    /\ At(frame.data, 0) = (IF k = n THEN k + 128 ELSE k)
    /\ LET bytes == Slice(value, 7 * (k - 1), Min(Len(value), 7 * k))
       IN  Slice(frame.data, 1, 1 + Len(bytes)) = bytes

\* C11: a start request (ccs = 5, cs = 3) in StartBlockUpload for a value of
\* len >= 1 bytes emits exactly ceil(len / 7) segments in the order 1, 2, ..;
\* byte 0 of segment k is k, with 0x80 added in the last one only; their data
\* bytes concatenate to the value; segments 1 .. ceil(len / 7) - 1 are on the
\* bus when the server enters ConfirmBlockUpload with the last one to send.
C11_StartEmitsAllSegments ==
    \A f \in StartBlockUploadRequests :
        (sdo_state = "StartSdoBlockUpload" /\ read_buf.some /\ Len(read_buf.v) >= 1) =>
            LET value == read_buf.v
                n == (Len(value) + 6) \div 7
            IN  \E d \in { Started(f) } :
                    /\ d.res.kind = "Ok" /\ d.res.v.some
                    /\ d.self.sdo_state = "ConfirmUploadSdoBlock"
                    /\ Len(d.self.can_network) = n - 1
                    /\ \A k \in 1..(n - 1) :
                          IsBlockSegment(d.self.can_network[k], value, k, n)
                    /\ IsBlockSegment(d.res.v.v, value, n, n)

\* C12: in BlockDownload a segment whose sequence number (byte 0, bits 0..6)
\* is not one more than the previous segment's (1 for the first) is answered
\* with abort InvalidSequenceNumber (0x05040003), and the transfer is dropped:
\* the server is in Normal and holds no write buffer.
C12_BadSequenceAborts ==
    \A f \in BlockDownloadRequests :
        (/\ sdo_state = "DownloadSdoBlock"
         /\ BitAnd(At(f.data, 0), 127) # current_seq_number + 1) =>
            /\ IsAbort(Response(f), "InvalidSequenceNumber")
            /\ After(f).sdo_state = "Normal"
            /\ After(f).write_buf = None

\* the entry a running download is addressed to
Reserved == << reserved_index, reserved_sub_index >>

\* C13: during a block download the target entry keeps its previous value
\* until the end-block frame is accepted: no segment changes it; an end frame
\* whose n is 7 - (write_data_size mod 7) commits write_buf[..write_data_size]
\* and is acknowledged with 0xA1; an end frame with another n is aborted with
\* 0x08000000 and leaves the entry unchanged.
C13_CommitOnEndFrame ==
    /\ \A f \in BlockDownloadRequests :
          (sdo_state = "DownloadSdoBlock" /\ Has(object_directory, Reserved)) =>
              ValueAt(After(f).object_directory, Reserved)
                  = ValueAt(object_directory, Reserved)
    /\ \A f \in EndBlockDownloadRequests :
          (/\ sdo_state = "EndSdoBlockDownload"
           /\ write_buf.some
           /\ Has(object_directory, Reserved)) =>
              IF EndBlockCmd_n(At(f.data, 0)) = 7 - (write_data_size % 7)
              THEN /\ At(Response(f).data, 0) = 161
                   /\ ValueAt(After(f).object_directory, Reserved)
                          = Slice(write_buf.v, 0, write_data_size)
              ELSE /\ IsAbort(Response(f), "GeneralError")
                   /\ ValueAt(After(f).object_directory, Reserved)
                          = ValueAt(object_directory, Reserved)

\* the node a received frame would leave behind
Then(frame) == Outcome(frame).self

\* the objects of a directory with index in range, as a function
Within(od, range) == [index \in { i \in DOMAIN od : i \in range } |-> od[index]]

\* C14: a 2-byte NMT frame (cs, own node id) sets the node state: 0x01 ->
\* Operational, 0x80 -> PreOperational, 0x81 and 0x82 -> Init, 0x02 -> Stopped
\* unless the state is Init; any other cs, another target node id or a
\* payload length other than 2 leaves the node state and the directory as
\* they were.
C14_NmtSetsState ==
    \A f \in NmtFrames :
        IF Len(f.data) = 2 /\ At(f.data, 1) = node_id
           /\ At(f.data, 0) \in { 1, 2, 128, 129, 130 }
        THEN Then(f).state =
                CASE At(f.data, 0) = 1 -> "Operational"
                  [] At(f.data, 0) = 128 -> "PreOperational"
                  [] At(f.data, 0) \in { 129, 130 } -> "Init"
                  [] At(f.data, 0) = 2 -> IF state = "Init" THEN "Init" ELSE "Stopped"
        ELSE /\ Then(f).state = state
             /\ Then(f).object_directory = object_directory

\* the node was stopped by an NMT stop command, after its directory had
\* been changed
C14_Witness ==
    /\ state = "Stopped"
    /\ object_directory # backup_od

\* the NMT reset-node and reset-communication commands for this node
ResetNode == [id |-> 0, data |-> << 129, node_id >>]
ResetCommunication == [id |-> 0, data |-> << 130, node_id >>]

\* C15: after an NMT reset-node command every object with index in
\* 0x1000..=0x9FFF, its values and its set of sub-entries, equals the backup
\* taken at construction, whatever was written before.
C15_ResetNodeRestores ==
    Within(Then(ResetNode).object_directory, 4096..40959) = Within(backup_od, 4096..40959)

\* the node is in Init with the directory of the backup, while RPDO 0 still
\* has the transmission type an SDO write gave it and an emergency has been
\* counted: a reset has undone the writes to the directory
C15_Witness ==
    /\ state = "Init"
    /\ object_directory = backup_od
    /\ pdo_objects.rpdos[0].transmission_type = 1
    /\ error_count = 1

\* C16: an NMT reset-communication command restores exactly the objects with
\* index in 0x1000..=0x1FFF to the backup and leaves every object outside
\* that range as it was before the command.
C16_ResetCommunicationRestores ==
    LET od2 == Then(ResetCommunication).object_directory
    IN  /\ Within(od2, 4096..8191) = Within(backup_od, 4096..8191)
        /\ Within(od2, DOMAIN od2 \ (4096..8191))
              = Within(object_directory, DOMAIN object_directory \ (4096..8191))

\* the node is in Init, the communication objects are those of the backup
\* although RPDO 0 has the transmission type of an SDO write, and the
\* application object 0x6000 keeps the byte an RPDO commit stored
C16_Witness ==
    /\ state = "Init"
    /\ Within(object_directory, 4096..8191) = Within(backup_od, 4096..8191)
    /\ pdo_objects.rpdos[0].transmission_type = 1
    /\ ValueAt(object_directory, << 24576, 0 >>) = << 5 >>

\* the slot with index k among the eight: RPDO 0..3, then TPDO 0..3 as 4..7
Slot(pdo_objs, k) == IF k < 4 THEN pdo_objs.rpdos[k] ELSE pdo_objs.tpdos[k - 4]

\* SDO writes to the RPDO 0 mapping object: the count, and entries that map
\* 4, 16 and 255 bits of 0x6000
MappingWrites ==
    { Request(node_id, 47, 5632, 0, << n, 0, 0, 0 >>) : n \in { 0, 1 } }
    \cup { Request(node_id, 35, 5632, 1, << bits, 0, 0, 96 >>) : bits \in { 4, 16, 255 } }

\* C19: after every acknowledged SDO write to a PDO parameter object
\* (0x1400..=0x1BFF), each valid slot with mapping count n has total_length
\* equal to the sum of the bit lengths of its first n mappings, and that sum
\* is at most 64.
C19_TotalLengthIsSum ==
    \A f \in ExpeditedDownloadRequests \cup MappingWrites :
        (AddressOf(f)[1] \in 5120..7167 /\ At(Response(f).data, 0) = 96) =>
            \A k \in 0..7 :
                Let(Slot(After(f).pdo_objects, k), LAMBDA pdo :
                    pdo.is_pdo_valid =>
                        /\ pdo.total_length = MappedBits(pdo, pdo.num_of_map_objs)
                        /\ MappedBits(pdo, pdo.num_of_map_objs) <= 64)

\* the NMT start command for this node
Start == [id |-> 0, data |-> << 1, node_id >>]

\* the step that left node `after` put a frame with the COB-ID of slot pdo
\* on the bus
Sent(after, pdo) == \E i \in DOMAIN after.can_network : after.can_network[i].id = pdo.cob_id

\* the step that left node `after` transmitted no TPDO: no frame on the bus
\* has the COB-ID of a valid TPDO slot
NoTpdo(after) ==
    \A x \in 0..3 :
        after.pdo_objects.tpdos[x].is_pdo_valid => ~Sent(after, after.pdo_objects.tpdos[x])

\* the step that left node `after` wrote no cached RPDO payload: no cache
\* was emptied and the application objects are as before
NoCommit(after) ==
    /\ \A x \in 0..3 :
           pdo_objects.rpdos[x].cached_data # << >> =>
               after.pdo_objects.rpdos[x].cached_data # << >>
    /\ Within(after.object_directory, 24576..40959)
          = Within(object_directory, 24576..40959)

C20_CobToIndexExact ==
    LET m == pdo_objects.cob_to_index
        cobs == DOMAIN m \cup { Slot(pdo_objects, k).cob_id : k \in 0..7 }
    IN  \A cob \in cobs, k \in 0..7 :
            (cob \in DOMAIN m /\ m[cob] = k)
                <=> (Slot(pdo_objects, k).is_pdo_valid /\ Slot(pdo_objects, k).cob_id = cob)

-----------------------------------------------------------------------------
(* Leaving a transfer: client aborts and requests that do not belong to it. *)

\* requests carrying each client command specifier, the client abort (0x80)
\* among them, with the n bits that an end-block frame could carry
ForeignRequests ==
    { Request(node_id, c, 4119, 0, << 0, 0, 0, 5 >>) :
        c \in { 128, 0, 8, 20, 84, 64, 96, 160, 163, 192 } }

\* the request's ccs is the one the transfer in progress expects; a block
\* download segment carries a sequence number and no ccs, so there only the
\* client abort is foreign
BelongsTo(sdo, cmd) ==
    CASE sdo = "SdoSegmentDownload" -> ccs(cmd) = 0
      [] sdo = "SdoSegmentUpload" -> ccs(cmd) = 3
      [] sdo = "EndSdoBlockDownload" -> ccs(cmd) = 6
      [] sdo = "StartSdoBlockUpload" -> ccs(cmd) = 5
      [] sdo = "ConfirmUploadSdoBlock" -> ccs(cmd) = 5
      [] OTHER -> cmd # 128

\* C30: from every SDO state other than Normal, a client abort frame or a
\* request whose ccs does not belong to the transfer in progress drops
\* read_buf and write_buf and returns the server to Normal, and the object
\* directory is not modified.
C30_ForeignRequestEndsTransfer ==
    sdo_state # "Normal" =>
        \A f \in ForeignRequests :
            ~BelongsTo(sdo_state, At(f.data, 0)) =>
                \A after \in { After(f) } :
                    /\ after.sdo_state = "Normal"
                    /\ after.read_buf = None
                    /\ after.write_buf = None
                    /\ after.object_directory = object_directory

-----------------------------------------------------------------------------
(* Arrays of the object directory.                                          *)

\* the largest sub-index an array holds a variable for
LargestSubIndex(arr) ==
    CHOOSE si \in DOMAIN arr.index_to_variable :
        \A other \in DOMAIN arr.index_to_variable : other <= si

\* C27: for every Array object, in every reachable state, sub-index 0 holds
\* a one-byte value equal to the largest sub-index populated in that array,
\* also after entries in 1..=254 were materialised on first access.
C27_ArrayCountIsLargest ==
    \A index \in DOMAIN object_directory :
        object_directory[index].kind = "Array" =>
            /\ 0 \in DOMAIN object_directory[index].index_to_variable
            /\ object_directory[index].index_to_variable[0].default_value
                  = << LargestSubIndex(object_directory[index]) >>

-----------------------------------------------------------------------------
(* The emergency bookkeeping.                                               *)

\* C23: in every reachable state error_count equals the value stored at
\* 0x1003:0, the number of recorded pre-defined error fields, across any
\* sequence of emergencies, NMT start commands, NMT resets and SDO traffic.
C23_ErrorCountMatchesDirectory ==
    ValueAt(object_directory, << REG_PRE_DEFINED_ERROR, 0 >>) = << error_count >>

-----------------------------------------------------------------------------
(* The node under emergencies, from a fresh error history and from one     *)
(* that is nearly full.                                                     *)

\* the sub-indices 1..=254 an array materialises (Array::get_mut_variable)
MaxErrorFields == 254

\* an RPDO 0 frame of the wrong length
WrongLength == [id |-> 514, data |-> << 5, 6 >>]

\* the node after k more frames of the wrong length, the bus drained
RECURSIVE AfterErrors(_, _)
AfterErrors(self, k) ==
    IF k = 0 THEN self
    ELSE IF k = 1
    THEN [process_rpdo_frame(self, WrongLength).self EXCEPT !.can_network = << >>]
    ELSE \* by halves, the first half built before the second starts
         Let(AfterErrors(self, k \div 2), LAMBDA half : AfterErrors(half, k - k \div 2))

\* the node at construction, or after MaxErrorFields - 1 emergencies
EmcyInit ==
    \E k \in { 0, MaxErrorFields - 1 } :
    \E n \in { AfterErrors(Node_new(DemoName).self, k) } :
        /\ object_directory = n.object_directory
        /\ backup_od = n.backup_od
        /\ pdo_objects = n.pdo_objects
        /\ sdo_state = n.sdo_state
        /\ read_buf = n.read_buf
        /\ read_buf_index = n.read_buf_index
        /\ next_read_toggle = n.next_read_toggle
        /\ write_buf = n.write_buf
        /\ reserved_index = n.reserved_index
        /\ reserved_sub_index = n.reserved_sub_index
        /\ write_data_size = n.write_data_size
        /\ need_crc = n.need_crc
        /\ block_size = n.block_size
        /\ current_seq_number = n.current_seq_number
        /\ heartbeats_timer = n.heartbeats_timer
        /\ sync_count = n.sync_count
        /\ event_count = n.event_count
        /\ state = n.state
        /\ error_count = n.error_count
        /\ heartbeats = n.heartbeats
        /\ can_network = n.can_network
        /\ halted = FALSE
        /\ Idle

\* RPDO frames, the state commands and the node reset, SYNC, and writes of
\* the RPDO 0 transmission type and of the mapped object
EmcyFrames ==
    RpdoFrames \cup StateFrames \cup SyncFrames
    \cup { [id |-> 0, data |-> << 129, node_id >>],
           Request(node_id, 47, 5120, 2, << 1, 0, 0, 0 >>),
           Request(node_id, 47, 24576, 0, << 7, 0, 0, 0 >>) }

\* a short history grows to MaxErrors + 1 fields, a long one until it is full
EmcyBounded(frame) ==
    LET func == BitAnd(frame.id, 65408)
    IN  /\ func = 128 => sync_count < MaxCount
        /\ (func >= 512 /\ func <= 1280) =>
              (error_count <= MaxErrors \/ error_count >= MaxErrorFields - 1)

EmcyNext == \E frame \in EmcyFrames : EmcyBounded(frame) /\ process_one_frame(frame)

SpecEmcy == EmcyInit /\ [][EmcyNext]_vars

\* the slot an RPDO frame is routed to, if any
RoutedSlot(frame) == get_mut_rpdo_with_cob_id(pdo_objects, frame.id)

\* the frame reaches an RPDO slot and its length is not the mapped one
HasWrongLength(frame) ==
    /\ RoutedSlot(frame).kind = "Ok"
    /\ Len(frame.data) # (pdo_objects.rpdos[RoutedSlot(frame).v].total_length + 7) \div 8

\* C22: when an RPDO frame with a wrong payload length arrives, the node
\* transmits on COB-ID 0x80 + node_id first the EMCY frame (0x10, 0x82,
\* error register, COB-ID of the frame, padding) and then the reset frame
\* (0, 0, 0, COB-ID, padding) and no other frame, and it records
\* 0x1003:0 <- count + 1, 0x1003:(count + 1) <- (0x10, 0x82, 0, 0) and
\* 0x1001:0 <- error register.
C22_EmergencySequence ==
    \A f \in RpdoFrames :
        HasWrongLength(f) =>
            \A after \in { Then(f) } :
                /\ after.can_network =
                      << [id |-> 128 + node_id,
                          data |-> << 16, 130, 0 >> \o to_le_bytes(f.id, 2) \o << 0, 0, 0 >>],
                         [id |-> 128 + node_id,
                          data |-> << 0, 0, 0 >> \o to_le_bytes(f.id, 2) \o << 0, 0, 0 >>] >>
                /\ ValueAt(after.object_directory, << REG_PRE_DEFINED_ERROR, 0 >>)
                      = << error_count + 1 >>
                /\ Has(after.object_directory, << REG_PRE_DEFINED_ERROR, error_count + 1 >>)
                /\ ValueAt(after.object_directory, << REG_PRE_DEFINED_ERROR, error_count + 1 >>)
                      = << 16, 130, 0, 0 >>
                /\ ValueAt(after.object_directory, << REG_ERROR, 0 >>) = << 0 >>

-----------------------------------------------------------------------------
(* Writing a PDO mapping entry.                                             *)

\* the objects a mapping entry may name: a read-write, a read-only, a
\* write-only and a string object, an absent object and an absent sub-index
MappedObjects ==
    { << 24576, 0 >>, << 24577, 0 >>, << 8192, 0 >>, << 8193, 0 >>,
      << 28672, 0 >>, << 4120, 9 >> }

\* expedited writes of sub-index 1 of the RPDO 0 and TPDO 1 mapping tables,
\* each naming 8 bits of one of the objects
MappingEntryWrites ==
    { Request(node_id, 35, table, 1, << 8, a[2] >> \o to_le_bytes(a[1], 2)) :
        table \in { 5632, 6657 }, a \in MappedObjects }

\* the object a mapping entry write names
MappedBy(frame) == << from_le_bytes(Slice(frame.data, 6, 8)), At(frame.data, 5) >>

\* C26: an SDO write of a mapping entry is rejected with
\* ObjectCannotBeMappedToPDO (0x06040041) whenever the object it names does
\* not exist, is not pdo_mappable, or - for a TPDO table - is not readable,
\* and the entry then keeps its previous value; in every other case the
\* write is accepted.
C26_MappingEntryCheck ==
    sdo_state = "Normal" =>
        \A f \in MappingEntryWrites :
            LET a == MappedBy(f)
                table == AddressOf(f)
                refused ==
                    \/ ~Has(object_directory, a)
                    \/ ~VarAt(object_directory, a[1], a[2]).pdo_mappable
                    \/ /\ table[1] >= 6656
                       /\ ~is_readable(VarAt(object_directory, a[1], a[2]).access_type)
            IN  IF refused
                THEN /\ IsAbort(Response(f), "ObjectCannotBeMappedToPDO")
                     /\ ValueAt(After(f).object_directory, table)
                           = ValueAt(object_directory, table)
                ELSE /\ At(Response(f).data, 0) = 96
                     /\ ValueAt(After(f).object_directory, table) = Slice(f.data, 4, 8)

-----------------------------------------------------------------------------
(* The heartbeat producer.                                                  *)

\* the heartbeat frames among the frames of a step
Heartbeats(frames) ==
    SelectSeq(frames, LAMBDA frame : frame.id = 1792 + node_id)

\* the frames that neither start the node nor write 0x1017
QuietFrames == (HeartbeatFrames \ HeartbeatWrites) \ { Start }

\* C24: with heartbeats_timer = T > 0 the timer callback counts every tick
\* and transmits a heartbeat on exactly every T-th one, as a 1-byte frame on
\* COB-ID 0x700 + node_id whose byte is the heartbeat code of the node state
\* at that tick (Init 0, PreOperational 127, Operational 5, Stopped 4); with
\* T = 0 no heartbeat is sent.  Between ticks only an NMT start or a write
\* of 0x1017 changes the count or the period, and no other step sends a
\* heartbeat.
C24_HeartbeatEveryTth ==
    /\ \A tick \in { TickOutcome.self } :
          IF heartbeats_timer = 0
          THEN Heartbeats(tick.can_network) = << >> /\ tick.heartbeats = heartbeats
          ELSE /\ tick.heartbeats = heartbeats + 1
               /\ Heartbeats(tick.can_network) =
                     IF (heartbeats + 1) % heartbeats_timer = 0
                     THEN << [id |-> 1792 + node_id,
                              data |-> << CASE state = "Init" -> 0
                                            [] state = "PreOperational" -> 127
                                            [] state = "Operational" -> 5
                                            [] state = "Stopped" -> 4 >>] >>
                     ELSE << >>
    /\ \A after \in { Then(f) : f \in QuietFrames } :
          /\ after.heartbeats = heartbeats
          /\ after.heartbeats_timer = heartbeats_timer
          /\ Heartbeats(after.can_network) = << >>

\* the node is Stopped with a heartbeat every 3rd tick, and the sixth tick
\* has just sent the second heartbeat, with code 4
C24_Witness ==
    /\ state = "Stopped"
    /\ heartbeats_timer = 3
    /\ heartbeats = 6
    /\ can_network = << [id |-> 1794, data |-> << 4 >>] >>

-----------------------------------------------------------------------------
(* PDO processing while the PDO parameters are rewritten.                   *)

\* C28: no sequence of RPDO frames, SYNC frames, timer ticks, NMT commands
\* and acknowledged SDO writes to PDO parameters makes PDO processing fault
\* (panic or halt) the node: a PDO that cannot be built, sent or committed
\* is skipped and the node keeps processing frames.
C28_PdoNeverFaults == ~halted

\* the bytes a payload of total_length bits takes
PayloadLen(pdo) == (pdo.total_length + 7) \div 8

\* C21: an RPDO frame is stored in its slot's cached_data only if its
\* payload length equals ceil(total_length / 8), and otherwise the cache is
\* left unchanged; and whenever a SYNC or a timer tick commits a cached
\* payload to the directory, its length equals ceil(total_length / 8) of
\* the slot's mapping at commit time, also when the mapping was changed by
\* SDO between reception and commit.
C21_CachedLengthMatches ==
    /\ \A f \in RpdoFrames :
          \A after \in { Then(f) } :
              \A k \in 0..3 :
                  after.pdo_objects.rpdos[k].cached_data =
                      IF /\ RoutedSlot(f) = Ok(k)
                         /\ Len(f.data) = PayloadLen(pdo_objects.rpdos[k])
                      THEN f.data
                      ELSE pdo_objects.rpdos[k].cached_data
    /\ \A after \in { Then(Sync), TickOutcome.self } :
          \A k \in 0..3 :
              (/\ pdo_objects.rpdos[k].cached_data # << >>
               /\ after.pdo_objects.rpdos[k].cached_data = << >>)
                  => Len(pdo_objects.rpdos[k].cached_data) = PayloadLen(pdo_objects.rpdos[k])

-----------------------------------------------------------------------------
(* Writing the count of a PDO mapping table.                                *)

\* the sum of the bit lengths (byte 0) of entries 1..n of the table at index
RECURSIVE EntryBitsSum(_, _, _)
EntryBitsSum(od, index, n) ==
    IF n = 0 THEN 0
    ELSE EntryBitsSum(od, index, n - 1) + At(ValueAt(od, << index, n >>), 0)

\* C29: writing sub-index 0 of a PDO mapping table with a count n such that
\* the bit lengths of the first n mapping entries sum to more than 64 is
\* always answered with the abort ExceedPDOSize (0x06040042), whatever the
\* entry bit lengths in 0..255 are.
C29_OversizeCountAborted ==
    sdo_state = "Normal" =>
        \A n \in 1..2 :
            EntryBitsSum(object_directory, 6657, n) > MAX_PDO_MAPPING_LENGTH =>
                \A out \in { dispatch_sdo_request(Self, CountWrite(n)) } :
                    /\ out.res.kind = "Ok"
                    /\ IsAbort(out.res.v.v, "ExceedPDOSize")

-----------------------------------------------------------------------------
(* The round trip of pack_data and unpack_data.                             *)

\* a field with its value masked to its width
Masked(field) == << LastBits(LastBits(field[1], field[2]), 64), field[2] >>

\* C25: for every sequence of (value, bits) pairs whose bit widths sum to at
\* most 64 (each width in 0..64, a single 64-bit field included),
\* pack_data returns exactly ceil(sum of bits / 8) bytes and unpack_data of
\* them, with the same widths, returns the pairs with each value masked to
\* its width.
C25_PackRoundTrip ==
    /\ packed.some =>
          /\ packed.v.kind = "Ok"
          /\ Len(packed.v.v) = (WidthSum(WidthsOf(fields)) + 7) \div 8
    /\ unpacked.some =>
          /\ unpacked.v.kind = "Ok"
          /\ unpacked.v.v = [i \in DOMAIN fields |-> Masked(fields[i])]

-----------------------------------------------------------------------------
(* NMT resets during an SDO transfer.                                       *)

\* C31: after an NMT reset (cs = 0x81 or 0x82) received while an SDO
\* transfer is in flight, sdo_state is Normal and read_buf and write_buf
\* are empty, so that the next SDO frame is taken as a new request and not
\* as a segment of the old transfer.
C31_ResetEndsTransfer ==
    sdo_state # "Normal" =>
        \A after \in { Then(ResetNode), Then(ResetCommunication) } :
            /\ after.state = "Init"
            /\ after.sdo_state = "Normal"
            /\ after.read_buf = None
            /\ after.write_buf = None

-----------------------------------------------------------------------------
(* The reserved transmission types.                                         *)

\* the ends of the reserved range 0xF1..=0xFD
ReservedTypes == { 241, 253 }

\* the node after SDO writes of transmission type tt to RPDO 0 and TPDO 0,
\* the bus drained
WithType(tt) ==
    Let(Dispatch(Self, Request(node_id, 47, 5120, 2, << tt, 0, 0, 0 >>)).self, LAMBDA s1 :
        [Dispatch(s1, Request(node_id, 47, 6144, 2, << tt, 0, 0, 0 >>)).self
            EXCEPT !.can_network = << >>])

\* the step from node `before` to node `after` sent no TPDO 0 frame, kept
\* the payload cached for RPDO 0 and left the application objects alone
Idles(before, after) ==
    /\ ~Sent(after, before.pdo_objects.tpdos[0])
    /\ after.pdo_objects.rpdos[0].cached_data = before.pdo_objects.rpdos[0].cached_data
    /\ Within(after.object_directory, 24576..40959)
          = Within(before.object_directory, 24576..40959)

\* both slots are valid and have the reserved type tt
HasReserved(s, tt) ==
    /\ s.pdo_objects.rpdos[0].is_pdo_valid
    /\ s.pdo_objects.rpdos[0].transmission_type = tt
    /\ s.pdo_objects.tpdos[0].is_pdo_valid
    /\ s.pdo_objects.tpdos[0].transmission_type = tt

-----------------------------------------------------------------------------
\* C33: in DownloadSdoBlock a segment that is accepted and is not
\* last-of-block produces no response frame; the server answers only the
\* last-of-block segment, with (0xA2, ackseq, blksize).
C33_OnlyLastSegmentAnswered ==
    sdo_state = "DownloadSdoBlock" =>
        \A f \in BlockDownloadRequests :
            \A out \in { dispatch_sdo_request(Self, f) } :
                out.res.kind = "Ok" /\ out.self.sdo_state # "Normal" =>
                    IF Shr(At(f.data, 0), 7) = 0
                    THEN ~out.res.v.some
                    ELSE Slice(out.res.v.v.data, 0, 3)
                            = << 162, out.self.current_seq_number, out.self.block_size >>

-----------------------------------------------------------------------------
\* C34: every abort frame sent for a failure in the middle of a transfer
\* (in any SDO state other than Normal) carries in bytes 1..3 the index and
\* sub-index given in that transfer's initiate request, not bytes taken from
\* the failing frame.
C34_AbortNamesTransfer ==
    sdo_state # "Normal" =>
        \A f \in Requests :
            ~filter_frame(f) =>
                \A out \in { HandlerResult(Self, f) } :
                    out.res.kind = "Err" =>
                        Slice(Response(f).data, 1, 4)
                            = to_le_bytes(reserved_index, 2) \o << reserved_sub_index >>

-----------------------------------------------------------------------------
\* the block sizes clients put in block-upload initiate and confirm requests
ClientBlockSizes == { 0, 1, 127, 128, 200 }

\* a block-upload initiate request and the confirm requests with block size b
BlockUploadFrames(b) ==
    { Request(node_id, 160, 4104, 0, << b, 0, 0, 0 >>) }
    \cup { [id |-> 1536 + node_id, data |-> << 162, ackseq, b, 0, 0, 0, 0, 0 >>]
             : ackseq \in 1..3 }

\* the client gives up the transfer
ClientAbort == Request(node_id, 128, 4104, 0, << 0, 0, 0, 5 >>)

\* the block-download initiate request for 0x1017
BlockDownloadInitiate == Request(node_id, 194, 4119, 0, << 2, 0, 0, 0 >>)

\* C35: the block_size the server advertises in a block-download initiate
\* response is always in 1..=127, whatever block sizes clients supplied in
\* earlier block-upload initiate and confirm requests.
C35_AdvertisedBlockSize ==
    \A b \in ClientBlockSizes :
        \A f \in BlockUploadFrames(b) :
            \A s1 \in { dispatch_sdo_request(Self, f) } :
                s1.res.kind = "Ok" =>
                    \A s2 \in { dispatch_sdo_request(s1.self, ClientAbort) } :
                        s2.res.kind = "Ok" =>
                            \A s3 \in { dispatch_sdo_request(s2.self, BlockDownloadInitiate) } :
                                s3.res.kind = "Ok" /\ At(s3.res.v.v.data, 0) # 128 =>
                                    At(s3.res.v.v.data, 4) \in 1..127

-----------------------------------------------------------------------------
(* TPDO to RPDO.  The node is built from an EDS with one more application  *)
(* entry, 0x6002, numeric, writable and mappable, which TPDO 0 and RPDO 0   *)
(* both map at its full width; both slots act on every SYNC.  The payload   *)
(* the node sends on the TPDO comes back on the COB-ID of the RPDO, as it   *)
(* would from a peer with the same mapping and the same value.             *)

\* the types of the exchanged entry and the bytes its values are made of
ExchangeTypes == { "Unsigned8", "Unsigned16", "Unsigned32" }
ExchangeBytes == { 0, 1, 255 }

\* the exchanged entry
Exchanged == << 24578, 0 >>

\* ObjectDirectory::new for that EDS, the entry of type dt holding v
ExchangeDirectory(dt, v) ==
    LET entry == << 8 * size(dt), 0, 2, 96 >>
    IN  (24578 :> VariableObject(Variable(24578, 0, dt, "rw", TRUE, v)))
        @@ [ObjectDirectory_new(DemoName) EXCEPT
                ![5120] = CompoundObject("Record", <<
                    Variable(5120, 0, "Unsigned8", "ro", FALSE, << 2 >>),
                    Variable(5120, 1, "Unsigned32", "rw", FALSE, << 2, 2, 0, 0 >>),
                    Variable(5120, 2, "Unsigned8", "rw", FALSE, << 1 >>) >>),
                ![5632] = CompoundObject("Record", <<
                    Variable(5632, 0, "Unsigned8", "rw", FALSE, << 1 >>),
                    Variable(5632, 1, "Unsigned32", "rw", FALSE, entry) >>),
                ![6656] = CompoundObject("Record", <<
                    Variable(6656, 0, "Unsigned8", "ro", FALSE, << 1 >>),
                    Variable(6656, 1, "Unsigned32", "ro", FALSE, entry) >>)]

\* Node::new on that directory
ExchangeNode(dt, v) ==
    update_pdo_params(
        [Node_new(DemoName).self EXCEPT !.object_directory = ExchangeDirectory(dt, v),
                                        !.backup_od = ExchangeDirectory(dt, v),
                                        !.pdo_objects = PdoObjects_new])

ExchangeInit ==
    /\ \E dt \in ExchangeTypes :
         \E v \in [1..size(dt) -> ExchangeBytes] :
           \E n \in { ExchangeNode(dt, v) } :
             /\ n.res.kind = "Ok"
             /\ object_directory = n.self.object_directory
             /\ backup_od = n.self.backup_od
             /\ pdo_objects = n.self.pdo_objects
             /\ sdo_state = n.self.sdo_state
             /\ read_buf = n.self.read_buf
             /\ read_buf_index = n.self.read_buf_index
             /\ next_read_toggle = n.self.next_read_toggle
             /\ write_buf = n.self.write_buf
             /\ reserved_index = n.self.reserved_index
             /\ reserved_sub_index = n.self.reserved_sub_index
             /\ write_data_size = n.self.write_data_size
             /\ need_crc = n.self.need_crc
             /\ block_size = n.self.block_size
             /\ current_seq_number = n.self.current_seq_number
             /\ heartbeats_timer = n.self.heartbeats_timer
             /\ sync_count = n.self.sync_count
             /\ event_count = n.self.event_count
             /\ state = n.self.state
             /\ error_count = n.self.error_count
             /\ heartbeats = n.self.heartbeats
             /\ can_network = n.self.can_network
             /\ halted = FALSE
    /\ Idle

\* the payload of a frame sent on the TPDO, on the COB-ID of the RPDO
Echo(frame) == [id |-> 514, data |-> frame.data]

\* the TPDO frames node s has put on the bus
TpdoFrames(s) ==
    { s.can_network[i] : i \in { j \in DOMAIN s.can_network : s.can_network[j].id = 386 } }

\* a TPDO frame on the bus is received on the RPDO
receive == \E frame \in TpdoFrames(Self) : process_one_frame(Echo(frame))

ExchangeNext ==
    \/ \E frame \in { Start, Sync } : Bounded(frame) /\ process_one_frame(frame)
    \/ receive

SpecExchange == ExchangeInit /\ [][ExchangeNext]_vars

\* C36: if a TPDO is built from an OD entry holding a numeric value v
\* (little-endian, mapped at its full bit width) and the payload is then
\* received and committed by an RPDO with the same mapping onto a writable
\* entry of the same type, that entry afterwards holds v.
C36_PdoRoundTrip ==
    state = "Operational" /\ pdo_objects.rpdos[0].cached_data = << >> =>
        \A sent \in { Dispatch([Self EXCEPT !.can_network = << >>], Sync).self } :
            \A frame \in TpdoFrames(sent) :
                \A cached \in { Dispatch(sent, Echo(frame)).self } :
                    \A committed \in { Dispatch(cached, Sync).self } :
                        ValueAt(committed.object_directory, Exchanged)
                            = ValueAt(object_directory, Exchanged)

-----------------------------------------------------------------------------
\* the SDO downloads of the mapping table and of every address
Downloads == EntryWrites \cup { CountWrite(n) : n \in 0..2 } \cup ExpeditedDownloadRequests

\* C37: every SDO download that is answered with an abort frame leaves the
\* whole OD and all PDO slot parameters exactly as they were before the
\* request, including writes to PDO parameter objects rejected with
\* ExceedPDOSize or ObjectCannotBeMappedToPDO after the OD lookup succeeded.
C37_AbortedDownloadChangesNothing ==
    \A f \in Downloads :
        \A out \in { dispatch_sdo_request(Self, f) } :
            out.res.kind = "Ok" /\ At(out.res.v.v.data, 0) = 128 =>
                /\ out.self.object_directory = object_directory
                /\ out.self.pdo_objects = pdo_objects

-----------------------------------------------------------------------------
\* the parameters of a slot: validity, COB-ID, transmission type, event
\* timer, mapping count and the mappings in use
SlotParameters(pdo) ==
    [is_pdo_valid |-> pdo.is_pdo_valid, cob_id |-> pdo.cob_id,
     transmission_type |-> pdo.transmission_type, event_timer |-> pdo.event_timer,
     num_of_map_objs |-> pdo.num_of_map_objs,
     mappings |-> [i \in 0..(pdo.num_of_map_objs - 1) |-> MappingAt(pdo, i)]]

\* the slots derived afresh from the directory of node s
Derived(s) == update_pdo_params([s EXCEPT !.pdo_objects = PdoObjects_new])

\* C38: between frames, each PDO slot's cached parameters (validity, cob_id,
\* transmission_type, event_timer, mapping count and mappings) equal the
\* values derived from the current OD entries in 0x1400..=0x1BFF: after
\* construction, after SDO writes, and after NMT reset node / reset
\* communication have restored those entries from the backup.
C38_SlotsFollowDirectory ==
    \A d \in { Derived(Self) } :
        d.res.kind = "Ok" =>
            \A x \in 0..3 :
                /\ SlotParameters(pdo_objects.rpdos[x])
                      = SlotParameters(d.self.pdo_objects.rpdos[x])
                /\ SlotParameters(pdo_objects.tpdos[x])
                      = SlotParameters(d.self.pdo_objects.tpdos[x])

-----------------------------------------------------------------------------
\* C39: for every 8-byte frame on COB-ID 0x600 + node_id, in every SDO state
\* and for every OD content, dispatch_sdo_request completes without
\* panicking, including expedited, segmented and block uploads of entries
\* whose current value is empty (zero-length strings) and writes to any PDO
\* parameter object in 0x1400..=0x1BFF present in the OD.
C39_DispatchNeverPanics ==
    ~halted =>
        \A f \in Requests \cup ObjectRequests :
            dispatch_sdo_request(Self, f).res.kind # "Panic"

-----------------------------------------------------------------------------
(* The Operational node under SYNC frames and timer ticks that keep        *)
(* arriving.  sync_count and event_count are kept modulo Period: the       *)
(* trigger predicate reads them only through count % transmission_type,    *)
(* and every synchronous type written here divides Period.                 *)

\* the transmission types written to RPDO 0
LiveTypes == { 0, 1, 2, 255 }

\* the least common multiple of the synchronous types in LiveTypes
Period ==
    CHOOSE p \in 1..240 :
        /\ \A tt \in LiveTypes \cap (1..240) : p % tt = 0
        /\ \A q \in 1..(p - 1) : \E tt \in LiveTypes \cap (1..240) : q % tt # 0

\* the payloads received on RPDO 0
LivePayloads == { << 5 >>, << 6 >> }

\* NMT start for the node that is not Operational yet, the RPDO 0 frames and
\* the writes of its transmission type
LiveFrames ==
    { f \in { Start } : state # "Operational" }
    \cup { [id |-> 514, data |-> p] : p \in LivePayloads }
    \cup { Request(node_id, 47, 5120, 2, << tt, 0, 0, 0 >>) : tt \in LiveTypes }

\* a SYNC frame arrives
sync_arrives ==
    /\ ~halted
    /\ \E r \in { Outcome(Sync) } :
           IF r.res.kind = "Panic"
           THEN /\ halted' = TRUE
                /\ can_network' = r.self.can_network
                /\ UNCHANGED << object_directory, pdo_objects, sdo_state, read_buf,
                                read_buf_index, next_read_toggle, write_buf, reserved_index,
                                reserved_sub_index, write_data_size, need_crc, block_size,
                                current_seq_number, heartbeats_timer, sync_count,
                                event_count, state, error_count, heartbeats >>
           ELSE Store([r.self EXCEPT !.sync_count = @ % Period]) /\ UNCHANGED halted
    /\ UNCHANGED << backup_od, fields, packed, unpacked >>

\* the timer fires
tick_arrives ==
    /\ ~halted
    /\ \E r \in { TickOutcome } :
           IF r.res.kind = "Panic"
           THEN /\ halted' = TRUE
                /\ can_network' = r.self.can_network
                /\ UNCHANGED << object_directory, pdo_objects, sdo_state, read_buf,
                                read_buf_index, next_read_toggle, write_buf, reserved_index,
                                reserved_sub_index, write_data_size, need_crc, block_size,
                                current_seq_number, heartbeats_timer, sync_count,
                                event_count, state, error_count, heartbeats >>
           ELSE Store([r.self EXCEPT !.event_count = @ % Period]) /\ UNCHANGED halted
    /\ UNCHANGED << backup_od, fields, packed, unpacked >>

LiveNext ==
    \/ \E frame \in LiveFrames : process_one_frame(frame)
    \/ sync_arrives
    \/ tick_arrives

\* SYNC frames and timer ticks keep arriving
SpecLive == Init /\ [][LiveNext]_vars /\ WF_vars(sync_arrives) /\ WF_vars(tick_arrives)

\* C40: while the node stays Operational and SYNC frames and timer ticks
\* keep arriving, every RPDO payload accepted into a valid slot's cache is
\* eventually written to the mapped OD entries (or replaced by a newer
\* payload that is), for every transmission type and event timer the slot
\* can be configured with.
C40_CachedPayloadCommitted ==
    \A tt \in LiveTypes :
        \A p \in LivePayloads :
            (state = "Operational" /\ pdo_objects.rpdos[0].is_pdo_valid
                /\ pdo_objects.rpdos[0].transmission_type = tt
                /\ pdo_objects.rpdos[0].cached_data = p)
            ~> (pdo_objects.rpdos[0].cached_data = << >>
                    \/ pdo_objects.rpdos[0].transmission_type # tt)

=============================================================================
